---------------------------- MODULE Spec2Model ----------------------------
(***************************************************************************)
(* Adaptive visual extraction pipeline of joblo:                           *)
(*   src/adaptive_screenshot_scraper.py  (browser, scroll, OCR, LLM calls) *)
(*   src/linkedin_scraper.py             (JSON repair, markup-aware path)  *)
(*                                                                         *)
(* Text is modelled as TLA+ strings, read character by character with      *)
(* SubSeq.  Two non-ASCII characters of the source have ASCII stand-ins:   *)
(*   EmDash    "~"  for U+2014 (the em dash of the label patterns)         *)
(*   BulletDot "@"  for U+2022 (the bullet of the label pattern)           *)
(* No modelled input uses "~" or "@" for anything else.                    *)
(***************************************************************************)
EXTENDS Integers, Sequences, FiniteSets, TLC

VARIABLES
    req,      \* per request: the locals of main_adaptive_scraper and its position
    file,     \* the screenshot artifact "temp_screenshot.png" in the working directory
    host,     \* the browser engines that launch on the machine the requests run on
    scroll,   \* capture_screenshot: locals of one call
    click,    \* click_best_matching_button: locals of one call
    label,    \* find_first_expand_button_label: one call (response, returned label)
    synth,    \* process_text_with_llm: one call (response, returned mapping)
    repair,   \* JSON repair cascade: one input and its successive repairs
    jobid,    \* extract_job_id: one call (URL, returned id)
    client,   \* ScraperClient.scrape_job_data: one call, with the path it invokes
    task,     \* async_adaptive_scraper (project/tasks.py): locals of the running call
    cache,    \* the Redis store the tasks memoize in: key -> stored value
    docx,     \* Markdown-to-DOCX conversion: the service call, the task, the input file
    popup     \* close_popups: locals of one call

vars == <<req, file, host, scroll, click, label, synth, repair, jobid, client,
         task, cache, docx, popup>>

\* the state of the single-call models below
\* the state of the wrappers around the pipeline and of close_popups
outer == <<task, cache, docx, popup>>

calls == <<scroll, click, label, synth, repair, jobid, client, outer>>

(***************************************************************************)
(* Characters and strings                                                  *)
(***************************************************************************)
EmDash == "~"
BulletDot == "@"

Max(S) == CHOOSE x \in S : \A y \in S : y <= x
Min(S) == CHOOSE x \in S : \A y \in S : x <= y

\* s[i] as a one-character string, "" outside the string
Ch(s, i) == IF i < 1 \/ i > Len(s) THEN "" ELSE SubSeq(s, i, i)

\* s[a..b] clipped to the string
Sub(s, a, b) ==
    LET lo == IF a < 1 THEN 1 ELSE a
        hi == IF b > Len(s) THEN Len(s) ELSE b
    IN  IF lo > hi THEN "" ELSE SubSeq(s, lo, hi)

\* \s of the re module, on the characters the inputs use
IsSpace(c) == c \in {" ", "\n", "\t", "\r"}

\* \d
IsDigit(c) == c \in {"0", "1", "2", "3", "4", "5", "6", "7", "8", "9"}

UpperAlpha == "ABCDEFGHIJKLMNOPQRSTUVWXYZ"
LowerAlpha == "abcdefghijklmnopqrstuvwxyz"

IsUpper(c) == \E i \in 1..26 : Ch(UpperAlpha, i) = c
IsLower(c) == \E i \in 1..26 : Ch(LowerAlpha, i) = c

\* [A-Za-z0-9_]
IsWordChar(c) == IsUpper(c) \/ IsLower(c) \/ IsDigit(c) \/ c = "_"

LowerCh(c) ==
    IF IsUpper(c) THEN Ch(LowerAlpha, CHOOSE i \in 1..26 : Ch(UpperAlpha, i) = c)
    ELSE c

RECURSIVE LowerFrom(_, _)
LowerFrom(s, i) ==
    IF i > Len(s) THEN "" ELSE LowerCh(Ch(s, i)) \o LowerFrom(s, i + 1)

\* str.lower()
Lower(s) == LowerFrom(s, 1)

\* sub in s
Contains(s, sub) ==
    \E i \in 1..(Len(s) - Len(sub) + 1) : SubSeq(s, i, i + Len(sub) - 1) = sub

\* number of consecutive whitespace characters of s from position p on
WsRun(s, p) ==
    LET stops == {q \in p..(Len(s) + 1) : ~IsSpace(Ch(s, q))}
    IN  Min(stops) - p

\* str.strip()
Strip(s) ==
    LET keep == {i \in 1..Len(s) : ~IsSpace(Ch(s, i))}
    IN  IF keep = {} THEN "" ELSE SubSeq(s, Min(keep), Max(keep))

\* Optional values: Python's None against a string
None == [some |-> FALSE, val |-> ""]
Some(v) == [some |-> TRUE, val |-> v]

(***************************************************************************)
(* find_first_expand_button_label: parsing of the label-proposal response  *)
(***************************************************************************)
UNWANTED_KEYWORDS ==
    <<"cookie", "settings", "privacy", "consent", "dismiss",
      "view job", "viewjob", "get started", "reviews">>

\* the fixed vocabulary of the fallback pattern
FallbackPhrases ==
    <<"Read More", "See More", "View Full Description", "Expand Details", "Show More">>

\* $ under re.MULTILINE: at the end of the text or before a newline
AtEol(t, p) == p = Len(t) + 1 \/ Ch(t, p) = "\n"

\* ^ under re.MULTILINE: at the start of the text or after a newline
AtBol(t, i) == i = 1 \/ Ch(t, i - 1) = "\n"

\* [*•-]
IsBullet(c) == c \in {"*", BulletDot, "-"}

\* (?:—|—>)?$ tried at p, in the pattern's order; the position after the match, 0 if none
TailAt(t, p) ==
    IF Ch(t, p) = EmDash /\ AtEol(t, p + 1) THEN p + 1
    ELSE IF Ch(t, p) = EmDash /\ Ch(t, p + 1) = ">" /\ AtEol(t, p + 2) THEN p + 2
    ELSE IF AtEol(t, p) THEN p
    ELSE 0

\* \s*(?:—|—>)?$ at e, \s* greedy; the position after the match, 0 if none
TailEnd(t, e) ==
    LET good == {w \in 0..WsRun(t, e) : TailAt(t, e + w) # 0}
    IN  IF good = {} THEN 0 ELSE TailAt(t, e + Max(good))

\* the ends e (exclusive) at which (.+?) from k can stop: no newline inside, tail matches
LabelEnds(t, k) ==
    {e \in (k + 1)..(Len(t) + 1) :
        /\ \A q \in k..(e - 1) : Ch(t, q) # "\n"
        /\ TailEnd(t, e) # 0}

\* starts k of (.+?) after the bullet at i, \s* greedy
LabelStarts(t, i) ==
    {k \in (i + 1)..(i + 1 + WsRun(t, i + 1)) : LabelEnds(t, k) # {}}

\* whether ^[*•-]\s*(.+?)\s*(?:—|—>)?$ matches at i
BulletMatchAt(t, i) ==
    AtBol(t, i) /\ IsBullet(Ch(t, i)) /\ LabelStarts(t, i) # {}

\* the match at i: its group 1 and the position after it
BulletMatch(t, i) ==
    LET k == Max(LabelStarts(t, i))
        e == Min(LabelEnds(t, k))
    IN  [group |-> Sub(t, k, e - 1), next |-> TailEnd(t, e)]

\* re.findall(pattern, button_labels, re.MULTILINE), scanning from pos
RECURSIVE FindAllBullets(_, _)
FindAllBullets(t, pos) ==
    LET starts == {i \in pos..Len(t) : BulletMatchAt(t, i)}
    IN  IF starts = {} THEN <<>>
        ELSE LET m == BulletMatch(t, Min(starts))
             IN  <<m.group>> \o FindAllBullets(t, m.next)

\* re.sub(r"\s*—|—>$", "", match): the first alternative matches every em dash,
\* with the whitespace before it, so the second alternative never applies
RECURSIVE RemoveDashesFrom(_, _)
RemoveDashesFrom(s, p) ==
    IF p > Len(s) THEN ""
    ELSE LET w == WsRun(s, p)
         IN  IF Ch(s, p + w) = EmDash THEN RemoveDashesFrom(s, p + w + 1)
             ELSE Ch(s, p) \o RemoveDashesFrom(s, p + 1)

\* button_label = re.sub(...).strip()
CleanLabel(match) == Strip(RemoveDashesFrom(match, 1))

\* any(keyword.lower() in button_label.lower() for keyword in UNWANTED_KEYWORDS)
Blacklisted(button_label) ==
    \E n \in 1..Len(UNWANTED_KEYWORDS) :
        Contains(Lower(button_label), Lower(UNWANTED_KEYWORDS[n]))

\* KeepLabel without the lower(): a case-sensitive blacklist test
KeepLabelCaseSensitive(button_label) ==
    ~\E n \in 1..Len(UNWANTED_KEYWORDS) : Contains(button_label, UNWANTED_KEYWORDS[n])

\* keep: the blacklist test applied to one cleaned label
KeepLabel(button_label) == ~Blacklisted(button_label)

\* valid_buttons: the cleaned labels that pass the blacklist, in order
RECURSIVE ValidButtonsFrom(_, _)
ValidButtonsFrom(matches, n) ==
    IF n > Len(matches) THEN <<>>
    ELSE LET button_label == CleanLabel(matches[n])
         IN  (IF KeepLabel(button_label) THEN <<button_label>> ELSE <<>>)
             \o ValidButtonsFrom(matches, n + 1)

ValidButtons(button_labels) == ValidButtonsFrom(FindAllBullets(button_labels, 1), 1)

\* the places where ^(Read More|...)$ matches, re.MULTILINE | re.IGNORECASE
FallbackHits(t) ==
    {h \in (1..Len(t)) \X (1..Len(FallbackPhrases)) :
        /\ AtBol(t, h[1])
        /\ Lower(Sub(t, h[1], h[1] + Len(FallbackPhrases[h[2]]) - 1))
              = Lower(FallbackPhrases[h[2]])
        /\ h[1] + Len(FallbackPhrases[h[2]]) - 1 <= Len(t)
        /\ AtEol(t, h[1] + Len(FallbackPhrases[h[2]]))}

\* re.search(...): the leftmost match, group(1).strip()
FallbackLabel(t) ==
    LET hits == FallbackHits(t)
        i == Min({h[1] : h \in hits})
        h == CHOOSE x \in hits : x[1] = i
    IN  Strip(Sub(t, i, i + Len(FallbackPhrases[h[2]]) - 1))

\* FirstValid taking the other end of the list
LastValid(valid_buttons) == valid_buttons[Len(valid_buttons)]

\* line 145: first_label = valid_buttons[0]
FirstValid(valid_buttons) == valid_buttons[1]

\* the value returned for the LLM output button_labels (lines 130-162)
ParseButtonLabels(button_labels) ==
    LET valid_buttons == ValidButtons(button_labels)
    IN  IF Len(valid_buttons) > 0 THEN Some(FirstValid(valid_buttons))
        ELSE IF FallbackHits(button_labels) # {} THEN Some(FallbackLabel(button_labels))
        ELSE None

\* find_first_expand_button_label(text, client): llmOk is whether the completion
\* call returned; any exception inside the try returns None
find_first_expand_button_label(llmOk, button_labels) ==
    IF llmOk THEN ParseButtonLabels(button_labels) ELSE None


(***************************************************************************)
(* process_text_with_llm (adaptive_screenshot_scraper.py): the parsers     *)
(* ast.literal_eval and json.loads are library code; their outcome on each *)
(* response the model uses is recorded here.                               *)
(***************************************************************************)
NoResult == [tag |-> "none", val |-> ""]
Err(reason) == [tag |-> "error", val |-> reason]       \* {"error": reason}
Parsed(text) == [tag |-> "record", val |-> text]       \* the mapping parsed from text

IsMapping(x) == x.tag \in {"error", "record"}

\* the structuring responses the model draws from
SynthResponses ==
    { "{\"title\": \"Engineer\"}",
      "{'title': 'Engineer'}",
      "Here you go: {\"title\": \"Engineer\"} Thanks",
      "{\"title\": \"Engineer\", \"years\": 3,500}",
      "[\"Engineer\"]",
      "[{\"title\": \"Engineer\"}]",
      "{[1]: 2}",
      "I cannot help",
      "{title: \"Engineer\"}",
      "{\"a\": 1} {\"b\": 2}",
      "Sure {\"skills\": [\"a\", \"b\",]}",
      "{\"title\": \"Engineer\",}",
      "{\\\"title\\\": \"Engineer\"}",
      "Here: {\"title\": \"Engineer\", \"years\": 3,500} done",
      "{}",
      "{1: \"a\"}",
      "{\"tags\": {\"a\"}}",
      "" }

\* ast.literal_eval(response_text): the kind of value returned, or the exception raised
LiteralEval(response_text) ==
    CASE response_text \in { "{\"title\": \"Engineer\"}", "{'title': 'Engineer'}",
                             "{\"title\": \"Engineer\",}", "{}",
                             "{1: \"a\"}", "{\"tags\": {\"a\"}}" } -> "dict"
      [] response_text \in { "[\"Engineer\"]", "[{\"title\": \"Engineer\"}]" } -> "other"
      [] response_text \in { "{title: \"Engineer\"}" } -> "ValueError"
      [] response_text \in { "{[1]: 2}" } -> "TypeError"
      [] OTHER -> "SyntaxError"

\* json.loads(text) returns a dict exactly for these texts; it raises JSONDecodeError
\* for every other text the model passes to it
JsonObjects ==
    { "{\"title\": \"Engineer\"}",
      "{\"title\": \"Engineer\", \"years\": 3500}",
      "{\"skills\": [\"a\", \"b\"]}",
      "{\"1\": \"a\"}",
      "{}" }

JsonLoads(text) == IF text \in JsonObjects THEN "dict" ELSE "JSONDecodeError"

\* re.search(r"\{.*\}", s, re.DOTALL): from the first "{" to the last "}"
HasBraceBlock(s) ==
    \E i \in 1..Len(s) : Ch(s, i) = "{" /\ \E j \in (i + 1)..Len(s) : Ch(s, j) = "}"

BraceBlock(s) ==
    LET i == Min({x \in 1..Len(s) : Ch(s, x) = "{"})
        j == Max({x \in 1..Len(s) : Ch(s, x) = "}"})
    IN  SubSeq(s, i, j)

Returned(result) == [status |-> "returned", result |-> result, exc |-> ""]
Raised(exc) == [status |-> "raised", result |-> NoResult, exc |-> exc]

\* the exceptions of ast.literal_eval that lines 266-272 handle
HandledParseError(outcome) == outcome \in {"ValueError", "SyntaxError"}

\* lines 261-273: the parse of the response
ParseAdaptive(response_text) ==
    LET outcome == LiteralEval(response_text)
    IN  IF outcome = "dict" THEN Returned(Parsed(response_text))
        ELSE IF outcome = "other" THEN Returned(Err("Failed to parse JSON response."))
        ELSE IF HandledParseError(outcome) THEN
            IF HasBraceBlock(response_text)
               /\ JsonLoads(BraceBlock(response_text)) = "dict"
            THEN Returned(Parsed(BraceBlock(response_text)))
            ELSE Returned(Err("Failed to parse JSON response."))
        ELSE Raised(outcome)

\* process_text_with_llm(text_content, llm): llmOk is whether llm.invoke returned
process_text_with_llm(text_content, llmOk, response_text) ==
    IF Strip(text_content) = "" THEN Returned(Err("No text extracted from image."))
    ELSE IF ~llmOk THEN Raised("LLMError")
    ELSE ParseAdaptive(response_text)


(***************************************************************************)
(* JSON repair (linkedin_scraper.py): post_process_and_fix_json,           *)
(* fix_escaped_quotes_in_keys, fix_invalid_key_escapes, safe_parse_llm_json*)
(***************************************************************************)

\* re.sub(r"(?<=\d),(?=\d)", "", s): the lookarounds read the original string
RECURSIVE RemoveNumberCommasFrom(_, _)
RemoveNumberCommasFrom(s, p) ==
    IF p > Len(s) THEN ""
    ELSE IF Ch(s, p) = "," /\ IsDigit(Ch(s, p - 1)) /\ IsDigit(Ch(s, p + 1))
    THEN RemoveNumberCommasFrom(s, p + 1)
    ELSE Ch(s, p) \o RemoveNumberCommasFrom(s, p + 1)

RemoveNumberCommas(s) == RemoveNumberCommasFrom(s, 1)

\* length of the run of [A-Za-z0-9_] from p on
WordRun(s, p) ==
    LET stops == {q \in p..(Len(s) + 1) : ~IsWordChar(Ch(s, q))}
    IN  Min(stops) - p

\* re.sub(r"([{\[,]\s*)([A-Za-z0-9_]+)\s*:", r'\1"\2":', s)
RECURSIVE QuoteKeysFrom(_, _)
QuoteKeysFrom(s, p) ==
    IF p > Len(s) THEN ""
    ELSE LET k == p + 1 + WsRun(s, p + 1)       \* start of the key
             n == WordRun(s, k)                 \* its length
             c == k + n + WsRun(s, k + n)       \* where the colon must be
         IN  IF Ch(s, p) \in {"{", "[", ","} /\ n >= 1 /\ Ch(s, c) = ":"
             THEN Sub(s, p, k - 1) \o "\"" \o Sub(s, k, k + n - 1) \o "\":"
                  \o QuoteKeysFrom(s, c + 1)
             ELSE Ch(s, p) \o QuoteKeysFrom(s, p + 1)

QuoteKeys(s) == QuoteKeysFrom(s, 1)

\* re.sub(r",(\s*[}\]])", r"\1", s): one comma before a closing bracket is dropped
RECURSIVE RemoveTrailingCommasFrom(_, _)
RemoveTrailingCommasFrom(s, p) ==
    IF p > Len(s) THEN ""
    ELSE LET b == p + 1 + WsRun(s, p + 1)       \* where the bracket must be
         IN  IF Ch(s, p) = "," /\ Ch(s, b) \in {"}", "]"}
             THEN Sub(s, p + 1, b) \o RemoveTrailingCommasFrom(s, b + 1)
             ELSE Ch(s, p) \o RemoveTrailingCommasFrom(s, p + 1)

RemoveTrailingCommas(s) == RemoveTrailingCommasFrom(s, 1)

\* post_process_and_fix_json(rough_json_str); None stands for the ValueError
\* "No JSON object-like block found in response."
post_process_and_fix_json(rough_json_str) ==
    IF ~HasBraceBlock(rough_json_str) THEN None
    ELSE Some(RemoveTrailingCommas(QuoteKeys(RemoveNumberCommas(BraceBlock(rough_json_str)))))

\* length of the run of [^"\\] from p on
KeyRun(s, p) ==
    LET stops == {q \in p..(Len(s) + 1) : Ch(s, q) \in {"", "\"", "\\"}}
    IN  Min(stops) - p

\* fix_escaped_quotes_in_keys: re.sub(r'\\?"([^"\\]+)"\\?:', r'"\1":', json_str)
RECURSIVE FixKeysFrom(_, _)
FixKeysFrom(s, p) ==
    IF p > Len(s) THEN ""
    ELSE LET k == IF Ch(s, p) = "\\" /\ Ch(s, p + 1) = "\"" THEN p + 2
                  ELSE IF Ch(s, p) = "\"" THEN p + 1
                  ELSE 0                          \* start of the key, 0: no match
             n == KeyRun(s, k)
             c == k + n + 1                       \* after the closing quote
             e == IF Ch(s, c) = "\\" /\ Ch(s, c + 1) = ":" THEN c + 2
                  ELSE IF Ch(s, c) = ":" THEN c + 1
                  ELSE 0                          \* after the match, 0: no match
         IN  IF k # 0 /\ n >= 1 /\ Ch(s, k + n) = "\"" /\ e # 0
             THEN "\"" \o Sub(s, k, k + n - 1) \o "\":" \o FixKeysFrom(s, e)
             ELSE Ch(s, p) \o FixKeysFrom(s, p + 1)

fix_escaped_quotes_in_keys(json_str) == FixKeysFrom(json_str, 1)

\* fix_invalid_key_escapes: apply fix_escaped_quotes_in_keys until nothing changes
RECURSIVE fix_invalid_key_escapes(_)
fix_invalid_key_escapes(json_str) ==
    LET new_str == fix_escaped_quotes_in_keys(json_str)
    IN  IF new_str = json_str THEN json_str ELSE fix_invalid_key_escapes(new_str)

\* the repair cascade on one string: post_process_and_fix_json, then
\* fix_invalid_key_escapes (safe_parse_llm_json, steps 1 and 2)
RepairCascade(s) ==
    LET block == post_process_and_fix_json(s)
    IN  IF block.some THEN Some(fix_invalid_key_escapes(block.val)) ELSE None

\* safe_parse_llm_json(response_text): the parsed mapping, None for its ValueError
safe_parse_llm_json(response_text) ==
    LET block == post_process_and_fix_json(response_text)
        cleaned_json_str ==
            fix_escaped_quotes_in_keys(fix_invalid_key_escapes(block.val))
    IN  IF ~block.some THEN None
        ELSE IF JsonLoads(cleaned_json_str) = "dict" THEN Some(cleaned_json_str)
        ELSE None

\* process_text_with_llm of linkedin_scraper.py (lines 197-230)
process_text_with_llm_linkedin(text_content, llmOk, response_text) ==
    IF Strip(text_content) = ""
    THEN Returned(Err("No text extracted from the job posting."))
    ELSE IF ~llmOk THEN Returned(Err("LLM invocation error: llm down"))
    ELSE LET job_description_json == safe_parse_llm_json(response_text)
         IN  IF job_description_json.some
             THEN Returned(Parsed(job_description_json.val))
             ELSE Returned(Err("Failed to parse JSON from LLM response."))

(***************************************************************************)
(* main_adaptive_scraper: one request is a sequential run of the steps     *)
(* below; requests of concurrent workers interleave at the steps.  The     *)
(* screenshot path "temp_screenshot.png" is relative to the working        *)
(* directory, which the requests share.                                    *)
(***************************************************************************)
NumRequests == 2
Requests == 1..NumRequests

browser_types_to_try == <<"webkit", "chromium", "firefox">>

\* what the page of request r shows; the expanded page shows more
PageText(r, expanded) ==
    "Job " \o Ch(UpperAlpha, r) \o (IF expanded THEN "\nfull description" ELSE "")

NoFile == [exists |-> FALSE, origin |-> 0, expanded |-> FALSE]
Screenshot(r, expanded) == [exists |-> TRUE, origin |-> r, expanded |-> expanded]

\* pytesseract.image_to_string on a screenshot: the page's text, or nothing usable;
\* an exception anywhere in the chain gives "" (line 88)
OcrOutputs(f) == {PageText(f.origin, f.expanded), "", " \n"}

\* the structuring responses the pipeline draws from: one that parses, one that
\* no stage parses, one on which ast.literal_eval raises TypeError, the empty object,
\* a Python literal with an integer key and one with a set
PipelineSynthResponses ==
    {"{\"title\": \"Engineer\"}", "I cannot help", "{[1]: 2}", "{}",
     "{1: \"a\"}", "{\"tags\": {\"a\"}}"}

\* the label-proposal responses the pipeline draws from
PipelineLabelResponses ==
    {"- Read More\n- See More\n- Get Started", "no button found", "- ~"}

Idle ==
    [pc |-> "idle", engine |-> 1, launched |-> <<>>, browser |-> "",
     browserOpen |-> FALSE, closeCalls |-> 0, pages |-> 0, gotoCalls |-> 0,
     expanded |-> FALSE, shot |-> 0, text |-> "", src |-> 0, reads |-> 0,
     initialRead |-> FALSE, initial_text |-> "", button_text |-> None,
     clicks |-> 0, clickMatch |-> "none", final_text |-> "", labelCalls |-> 0, structCalls |-> 0,
     status |-> "running", result |-> NoResult, exc |-> "", playwright |-> "none"]

\* line 342: the request has entered the sync_playwright() block
Started == [Idle EXCEPT !.pc = "launch", !.playwright = "running"]

\* line 342, with sync_playwright() as p: every statement of the request is inside
\* the block, so each return and each exception leaves through its exit, which stops
\* the Playwright driver.  browserOpen records what this function does to the
\* browser: a launch sets it and only browser.close() clears it; what the stopped
\* driver does to a browser that was never closed is not decided by this code.
ExitPlaywright(q) == [q EXCEPT !.playwright = "stopped"]

\* return value: the function returns a mapping
Return(q, result) ==
    ExitPlaywright([q EXCEPT !.pc = "done", !.status = "returned", !.result = result])

\* an exception leaves the function
Raise(q, exc) ==
    ExitPlaywright([q EXCEPT !.pc = "done", !.status = "raised", !.exc = exc])

\* browser.close()
CloseBrowser(q) == [q EXCEPT !.browserOpen = FALSE, !.closeCalls = @ + 1]

\* line 359: browser_type == browser_types_to_try[-1]
IsLastEngine(browser_type) ==
    browser_type = browser_types_to_try[Len(browser_types_to_try)]

\* AfterLaunch without the break: the loop goes on to the next engine
AfterLaunchNoBreak(q, browser_type) ==
    [q EXCEPT !.launched = Append(@, browser_type), !.browser = browser_type,
              !.browserOpen = TRUE,
              !.engine = IF @ < Len(browser_types_to_try) THEN @ + 1 ELSE @,
              !.pc = IF q.engine < Len(browser_types_to_try) THEN "launch" ELSE "new_page"]

\* after a successful launch: break out of the loop (line 355)
AfterLaunch(q, browser_type) ==
    [q EXCEPT !.launched = Append(@, browser_type), !.browser = browser_type,
              !.browserOpen = TRUE, !.pc = "new_page"]

\* lines 345-362: one iteration of the launch loop
LaunchStep(q, ok) ==
    LET browser_type == browser_types_to_try[q.engine]
    IN  IF ok THEN AfterLaunch(q, browser_type)
        ELSE IF IsLastEngine(browser_type)
        THEN Return([q EXCEPT !.launched = Append(@, browser_type)],
                    Err("Failed to launch any Playwright browser: launch failed"))
        ELSE [q EXCEPT !.launched = Append(@, browser_type), !.engine = @ + 1]

\* p.webkit.launch / p.chromium.launch / p.firefox.launch: an engine launches
\* exactly when the machine has it
Launches(browser_type) == browser_type \in host

Launch(r) ==
    /\ req[r].pc = "launch"
    /\ req' = [req EXCEPT ![r] =
                  LaunchStep(@, Launches(browser_types_to_try[req[r].engine]))]
    /\ UNCHANGED <<file, host, calls>>

\* lines 364-369: the safeguard, browser.new_page(), handle_dialogs(page)
NewPageStep(q, ok) ==
    IF q.browser = "" THEN Return(q, Err("Browser could not be initialized."))
    ELSE IF ok THEN [q EXCEPT !.pages = @ + 1, !.pc = "goto"]
    ELSE Raise(q, "new_page")

NewPage(r) ==
    /\ req[r].pc = "new_page"
    /\ \E ok \in BOOLEAN : req' = [req EXCEPT ![r] = NewPageStep(req[r], ok)]
    /\ UNCHANGED <<file, host, calls>>

\* lines 371-382: page.goto with its two handlers
GotoStep(q, outcome) ==
    LET g == [q EXCEPT !.gotoCalls = @ + 1]
    IN  IF outcome = "ok" THEN [g EXCEPT !.pc = "close_popups"]
        ELSE IF outcome = "timeout"
        THEN Return(CloseBrowser(g), Err("Page navigation timed out."))
        ELSE Return(CloseBrowser(g), Err("Page navigation failed: net error"))

Goto(r) ==
    /\ req[r].pc = "goto"
    /\ \E outcome \in {"ok", "timeout", "error"} :
          req' = [req EXCEPT ![r] = GotoStep(req[r], outcome)]
    /\ UNCHANGED <<file, host, calls>>

\* line 385: close_popups(page, max_attempts=2) absorbs every failure
ClosePopups(r) ==
    /\ req[r].pc = "close_popups"
    /\ req' = [req EXCEPT ![r] = [@ EXCEPT !.pc = "capture", !.shot = 1]]
    /\ UNCHANGED <<file, host, calls>>

\* lines 389, 404: capture_screenshot(page, output_file=temp_screenshot_path);
\* page.evaluate or page.screenshot may raise, and nothing here handles it
Capture(r) ==
    /\ req[r].pc = "capture"
    /\ \E ok \in BOOLEAN :
          IF ok
          THEN /\ req' = [req EXCEPT ![r] = [@ EXCEPT !.pc = "ocr_read"]]
               /\ file' = Screenshot(r, req[r].expanded)
          ELSE /\ req' = [req EXCEPT ![r] = Raise(@, "capture_screenshot")]
               /\ file' = file
    /\ UNCHANGED <<host, calls>>

\* extract_text_from_image, lines 62-88: open the file and run OCR
OcrRead(r) ==
    /\ req[r].pc = "ocr_read"
    /\ \E text \in (IF file.exists THEN OcrOutputs(file) ELSE {""}) :
          req' = [req EXCEPT ![r] = [@ EXCEPT !.text = text, !.src = file.origin,
                                                !.reads = @ + 1, !.pc = "ocr_exists"]]
    /\ UNCHANGED <<file, host, calls>>

\* line 92: os.path.exists(image_path)
OcrExists(r) ==
    /\ req[r].pc = "ocr_exists"
    /\ req' = [req EXCEPT ![r] =
                  [@ EXCEPT !.pc = IF file.exists THEN "ocr_remove" ELSE "after_ocr"]]
    /\ UNCHANGED <<file, host, calls>>

\* line 93: os.remove(image_path), inside finally and outside every try: the file
\* is removed, or os.remove raises on a file it cannot remove (the file stays), or
\* it raises on a file that is gone; an exception here leaves
\* extract_text_from_image and, unhandled at lines 390 and 405, the request
OcrRemove(r) ==
    /\ req[r].pc = "ocr_remove"
    /\ IF file.exists
       THEN \/ /\ file' = NoFile
               /\ req' = [req EXCEPT ![r] = [@ EXCEPT !.pc = "after_ocr"]]
            \/ /\ file' = file
               /\ req' = [req EXCEPT ![r] = Raise(@, "PermissionError")]
       ELSE /\ file' = file
            /\ req' = [req EXCEPT ![r] = Raise(@, "FileNotFoundError")]
    /\ UNCHANGED <<host, calls>>

\* InitialTextFailed without the strip: only the empty string counts as failed
InitialTextFailedNoStrip(initial_text) == initial_text = ""

\* line 392: not initial_text.strip()
InitialTextFailed(initial_text) == Strip(initial_text) = ""

\* lines 390-397: the initial text and its check
CheckInitialStep(q) ==
    LET g == [q EXCEPT !.initial_text = q.text, !.initialRead = TRUE]
    IN  IF InitialTextFailed(g.initial_text)
        THEN Return(CloseBrowser(g), Err("Initial text extraction failed."))
        ELSE [g EXCEPT !.pc = "label"]

CheckInitial(r) ==
    /\ req[r].pc = "after_ocr" /\ req[r].shot = 1
    /\ req' = [req EXCEPT ![r] = CheckInitialStep(req[r])]
    /\ UNCHANGED <<file, host, calls>>

\* Truthy as "is not None": the empty label counts as a label
TruthyNotNone(button_text) == button_text.some

\* line 401: if button_text (None and "" are falsy)
Truthy(button_text) == button_text.some /\ button_text.val # ""

\* what find_first_expand_button_label returns to the pipeline: for a failed
\* completion call, and for each response
PipelineLabels ==
    {find_first_expand_button_label(FALSE, "")}
    \cup {find_first_expand_button_label(TRUE, b) : b \in PipelineLabelResponses}

\* lines 399-401: the label proposal
LabelStep(q, button_text) ==
    [q EXCEPT !.labelCalls = @ + 1, !.button_text = button_text,
                  !.final_text = q.initial_text,
              !.pc = IF Truthy(button_text) THEN "click" ELSE "close"]

Label(r) ==
    /\ req[r].pc = "label"
    /\ \E button_text \in PipelineLabels :
          req' = [req EXCEPT ![r] = LabelStep(req[r], button_text)]
    /\ UNCHANGED <<file, host, calls>>

\* click_best_matching_button(page, target_text, threshold=0.7, ...), in hundredths
Threshold == 70

\* the elements of a page, as the click on a label sees them: whether the element is
\* one of "button, a, [role='button']", the similarity of its text to the label in
\* hundredths, and whether its text contains the label (the text= selector of
\* line 173 matches a substring, ignoring case, in any element)
ExactButton == [clickable |-> TRUE, score |-> 100, contains |-> TRUE]
NearButton == [clickable |-> TRUE, score |-> 70, contains |-> FALSE]
LongLink == [clickable |-> TRUE, score |-> 69, contains |-> TRUE]
Paragraph == [clickable |-> FALSE, score |-> 69, contains |-> TRUE]
OtherButton == [clickable |-> TRUE, score |-> 0, contains |-> FALSE]

PageElements == {ExactButton, NearButton, LongLink, Paragraph, OtherButton}

MaxPageElements == 2

\* the pages: the elements in document order
Pages == UNION {[1..n -> PageElements] : n \in 0..MaxPageElements}

\* click_best_matching_button on the page: the first clickable element with the
\* highest similarity if that similarity reaches the threshold, 0 for no click
FuzzyTarget(page) ==
    LET cand == {i \in 1..Len(page) : page[i].clickable}
        best == {i \in cand : \A j \in cand : page[j].score <= page[i].score}
    IN  IF cand # {} /\ page[Min(best)].score >= Threshold THEN Min(best) ELSE 0

\* line 173: page.locator("text=" + button_text).first, 0 when nothing matches
LocatorFirst(page) ==
    LET hits == {i \in 1..Len(page) : page[i].contains}
    IN  IF hits = {} THEN 0 ELSE Min(hits)

\* lines 169-182: simulate_button_click; wait_for times out when nothing matches,
\* and every failure is absorbed.  clickMatch records how the element clicked
\* relates to the one click_best_matching_button would click.
ClickStep(q, page, clickOk) ==
    LET target == LocatorFirst(page)
        landed == target # 0 /\ clickOk
    IN  [q EXCEPT !.clicks = @ + (IF landed THEN 1 ELSE 0),
                  !.clickMatch = IF ~landed THEN "none"
                                 ELSE IF target = FuzzyTarget(page) THEN "best"
                                 ELSE "other",
                  !.expanded = landed, !.pc = "capture", !.shot = 2]

\* lines 402-403: simulate_button_click(page, button_text); a click that lands
\* expands the page
Click(r) ==
    /\ req[r].pc = "click"
    /\ \E page \in Pages : \E clickOk \in BOOLEAN :
          req' = [req EXCEPT ![r] = ClickStep(req[r], page, clickOk)]
    /\ UNCHANGED <<file, host, calls>>

\* lines 405-409: the expanded text replaces the initial one unless it is blank
UseExpandedStep(q) ==
    [q EXCEPT !.final_text = IF Strip(q.text) # "" THEN q.text ELSE q.initial_text,
              !.pc = "close"]

UseExpanded(r) ==
    /\ req[r].pc = "after_ocr" /\ req[r].shot = 2
    /\ req' = [req EXCEPT ![r] = UseExpandedStep(req[r])]
    /\ UNCHANGED <<file, host, calls>>

\* line 411: browser.close()
Close(r) ==
    /\ req[r].pc = "close"
    /\ req' = [req EXCEPT ![r] = [CloseBrowser(@) EXCEPT !.pc = "structure"]]
    /\ UNCHANGED <<file, host, calls>>

\* lines 414-424: the structuring call
StructureStep(q, llmOk, response_text) ==
    IF Strip(q.final_text) # ""
    THEN LET out == process_text_with_llm(q.final_text, llmOk, response_text)
             g == [q EXCEPT !.structCalls = @ + 1]
         IN  IF out.status = "returned" THEN Return(g, out.result)
             ELSE Raise(g, out.exc)
    ELSE Return(q, Err("No text content available after attempting to expand job description."))

Structure(r) ==
    /\ req[r].pc = "structure"
    /\ \E llmOk \in BOOLEAN :
       \E response_text \in (IF llmOk THEN PipelineSynthResponses ELSE {""}) :
          req' = [req EXCEPT ![r] = StructureStep(req[r], llmOk, response_text)]
    /\ UNCHANGED <<file, host, calls>>

PipelineStep(r) ==
    \/ Launch(r) \/ NewPage(r) \/ Goto(r) \/ ClosePopups(r) \/ Capture(r)
    \/ OcrRead(r) \/ OcrExists(r) \/ OcrRemove(r) \/ CheckInitial(r)
    \/ Label(r) \/ Click(r) \/ UseExpanded(r) \/ Close(r) \/ Structure(r)

Unused == [pc |-> "unused"]

\* the wrappers and close_popups take no part in a specification
OuterUnused == task = Unused /\ cache = Unused /\ docx = Unused /\ popup = Unused

\* one request, from the call of main_adaptive_scraper
Engines == {browser_types_to_try[n] : n \in 1..Len(browser_types_to_try)}

Init ==
    /\ req = [r \in Requests |-> IF r = 1 THEN Started ELSE Idle]
    /\ jobid = Unused /\ client = Unused /\ OuterUnused
    /\ file = NoFile
    /\ host \in SUBSET Engines
    /\ scroll = Unused /\ click = Unused /\ label = Unused
    /\ synth = Unused /\ repair = Unused

Next == PipelineStep(1)

Spec == Init /\ [][Next]_vars

\* every request of Requests runs, interleaved, on a machine with all engines
InitConc ==
    /\ req = [r \in Requests |-> Started]
    /\ jobid = Unused /\ client = Unused /\ OuterUnused
    /\ file = NoFile
    /\ host = Engines
    /\ scroll = Unused /\ click = Unused /\ label = Unused
    /\ synth = Unused /\ repair = Unused

NextConc == \E r \in Requests : PipelineStep(r)

SpecConc == InitConc /\ [][NextConc]_vars


(***************************************************************************)
(* Properties of the pipeline                                              *)
(***************************************************************************)

\* C1: a finished request has returned a mapping (a record or an error record);
\* no exception reaches the caller of main_adaptive_scraper.
C1_AlwaysReturnsMapping ==
    \A r \in Requests :
        req[r].pc = "done" => req[r].status = "returned" /\ IsMapping(req[r].result)

\* C3: every OCR read of a request reads the screenshot of that request's own page
\* (it is neither another request's screenshot nor already deleted).
C3_ReadsOwnScreenshot ==
    \A r \in Requests : req[r].reads > 0 => req[r].src = r

\* C4: the engines are launched in the order webkit, chromium, firefox; the engine in
\* use is the first of them that launches and the last one launched; an error for the
\* launch is returned only after all three failed, with no page and no navigation.
C4_EngineOrder ==
    \A r \in Requests :
        LET q == req[r]
            n == Len(q.launched)
        IN  /\ n <= 3
            /\ q.launched = SubSeq(<<"webkit", "chromium", "firefox">>, 1, n)
            /\ q.browser # "" =>
                  /\ n >= 1 /\ q.launched[n] = q.browser
                  /\ q.browser \in host
                  /\ \A i \in 1..(n - 1) : q.launched[i] \notin host
            /\ q.browser = "" /\ q.pc = "done" =>
                  /\ n = 3
                  /\ q.status = "returned" /\ q.result.tag = "error"
                  /\ q.pages = 0 /\ q.gotoCalls = 0

\* C4 witness: all three engines failed and the request has returned
C4_AllEnginesFailed ==
    /\ req[1].pc = "done" /\ req[1].browser = ""
    /\ req[1].launched = <<"webkit", "chromium", "firefox">>

\* C8: a blank initial OCR text ends the request with the error record
\* "Initial text extraction failed." and without any LLM call.
C8_BlankInitialText ==
    \A r \in Requests :
        req[r].initialRead /\ Strip(req[r].initial_text) = "" =>
            /\ req[r].pc = "done" /\ req[r].status = "returned"
            /\ req[r].result = Err("Initial text extraction failed.")
            /\ req[r].labelCalls = 0 /\ req[r].structCalls = 0

\* C8 witness: the initial text was whitespace only and the request has ended
C8_WhitespaceOnlyText ==
    req[1].initialRead /\ req[1].initial_text = " \n" /\ req[1].pc = "done"


(***************************************************************************)
(* capture_screenshot: one call                                            *)
(***************************************************************************)
ScrollAttempts == 10      \* range(10)
MaxHeight == 4            \* scroll heights are drawn from 1..MaxHeight
ScrollHeights == 1..MaxHeight

\* RangeHasNext off by one: an eleventh iteration
RangeHasNextOffByOne(done) == done <= ScrollAttempts

\* for _ in range(10): whether an iteration follows after done iterations
RangeHasNext(done) == done < ScrollAttempts

\* line 34 with the comparison turned into "has not grown"
HeightUnchangedOrLess(new_scroll_height, scroll_height) ==
    new_scroll_height <= scroll_height

\* line 34: if new_scroll_height == scroll_height
HeightUnchanged(new_scroll_height, scroll_height) ==
    new_scroll_height = scroll_height

\* measured is the height the page reported last, and firstSame the first
\* iteration whose measurement repeated the one before it (0: none so far)
ScrollIdle ==
    [pc |-> "start", scroll_height |-> 0, iterations |-> 0, shots |-> 0,
     measured |-> 0, firstSame |-> 0]

\* line 25: scroll_height = page.evaluate("document.body.scrollHeight")
ScrollStart ==
    /\ scroll.pc = "start"
    /\ \/ \E h \in ScrollHeights :
             scroll' = [scroll EXCEPT !.scroll_height = h, !.measured = h,
                                      !.pc = IF RangeHasNext(0) THEN "loop" ELSE "shoot"]
       \/ scroll' = [scroll EXCEPT !.pc = "raised"]
    /\ UNCHANGED <<req, file, host, click, label, synth, repair, jobid, client, outer>>

\* lines 28-37: one iteration: scroll, wait, re-measure, compare
ScrollIter ==
    /\ scroll.pc = "loop"
    /\ \/ \E new_scroll_height \in ScrollHeights :
             LET n == scroll.iterations + 1
                 seen == [scroll EXCEPT
                            !.iterations = n, !.measured = new_scroll_height,
                            !.firstSame =
                               IF @ = 0 /\ new_scroll_height = scroll.measured
                               THEN n ELSE @]
             IN  scroll' =
                   IF HeightUnchanged(new_scroll_height, scroll.scroll_height)
                   THEN [seen EXCEPT !.pc = "shoot"]
                   ELSE [seen EXCEPT !.scroll_height = new_scroll_height,
                                     !.pc = IF RangeHasNext(n) THEN "loop" ELSE "shoot"]
       \/ scroll' = [scroll EXCEPT !.iterations = @ + 1, !.pc = "raised"]
    /\ UNCHANGED <<req, file, host, click, label, synth, repair, jobid, client, outer>>

\* line 42: page.screenshot(path=output_file, full_page=True)
ScrollShoot ==
    /\ scroll.pc = "shoot"
    /\ \/ scroll' = [scroll EXCEPT !.shots = @ + 1, !.pc = "done"]
       \/ scroll' = [scroll EXCEPT !.pc = "raised"]
    /\ UNCHANGED <<req, file, host, click, label, synth, repair, jobid, client, outer>>

InitScroll ==
    /\ req = [r \in Requests |-> Idle] /\ file = NoFile /\ host = {}
    /\ jobid = Unused /\ client = Unused /\ OuterUnused
    /\ scroll = ScrollIdle
    /\ click = Unused /\ label = Unused /\ synth = Unused /\ repair = Unused

NextScroll == ScrollStart \/ ScrollIter \/ ScrollShoot

SpecScroll == InitScroll /\ [][NextScroll]_vars

\* the call runs on: a step that can be taken is eventually taken
SpecScrollFair == SpecScroll /\ WF_vars(NextScroll)

\* C5: whatever heights the page reports, the loop never runs more than 10
\* iterations, and the call ends (it returns after the screenshot, or raises).
C5_ScrollBounded ==
    /\ [](scroll.iterations <= 10)
    /\ <>(scroll.pc \in {"done", "raised"})

\* C5 witness: the height changed in all ten iterations and the screenshot was taken
C5_TenIterations == scroll.pc = "done" /\ scroll.iterations = 10

\* C24: the loop goes on while every re-measured height differs from the one
\* measured before it and fewer than 10 iterations are done; it stops with exactly
\* k iterations, k the first iteration whose height repeated the previous one, or
\* 10 if none did; and no screenshot is taken before the loop has stopped.
C24_StopsAtFirstUnchanged ==
    /\ scroll.pc = "loop" =>
          scroll.firstSame = 0 /\ scroll.iterations < 10 /\ scroll.shots = 0
    /\ scroll.pc \in {"shoot", "done"} =>
          scroll.iterations = IF scroll.firstSame # 0 THEN scroll.firstSame ELSE 10
    /\ scroll.shots > 0 => scroll.pc = "done" /\ scroll.shots = 1

\* C24 witness: the height changed twice, repeated in the third iteration, and the
\* screenshot was taken after three iterations
C24_StoppedAtThird ==
    /\ scroll.pc = "done" /\ scroll.shots = 1
    /\ scroll.firstSame = 3 /\ scroll.iterations = 3

(***************************************************************************)
(* click_best_matching_button: one call.  Scores are SequenceMatcher ratios *)
(* in hundredths; candidates are the elements of the locator, in order.     *)
(***************************************************************************)
MaxCandidates == 3
ScoreValues == {0, 69, 70, 100}

\* a candidate: the similarity of its text to the target, and whether inner_text()
\* returns during the scan
Candidate == [score : ScoreValues, readable : BOOLEAN]

CandidateLists == UNION {[1..n -> Candidate] : n \in 0..MaxCandidates}

\* MeetsThreshold with > for >=
MeetsThresholdStrict(best_score, best_element) ==
    best_score > Threshold /\ best_element # 0

\* line 319: best_score >= threshold and best_element
MeetsThreshold(best_score, best_element) ==
    best_score >= Threshold /\ best_element # 0

ClickIdle(cands) ==
    [pc |-> "wait", cands |-> cands, i |-> 1, best_score |-> 0, best_element |-> 0,
     waited |-> FALSE, clicked |-> 0, failed |-> FALSE, result |-> FALSE,
     scored |-> {}]

\* lines 294-301: wait for the first candidate; with no candidate the wait times out
ClickWait ==
    /\ click.pc = "wait"
    /\ \E ok \in (IF Len(click.cands) = 0 THEN {FALSE} ELSE BOOLEAN) :
          click' = IF ok THEN [click EXCEPT !.waited = TRUE, !.pc = "scan"]
                   ELSE [click EXCEPT !.pc = "done", !.result = FALSE]
    /\ UNCHANGED <<req, file, host, scroll, label, synth, repair, jobid, client, outer>>

\* the scan with the handler outside the loop: an unreadable candidate ends it
ScanStepAbort(c) ==
    LET cand == c.cands[c.i]
        better == cand.readable /\ cand.score > c.best_score
    IN  [c EXCEPT !.best_score = IF better THEN cand.score ELSE @,
                  !.best_element = IF better THEN c.i ELSE @,
                  !.scored = IF cand.readable THEN @ \cup {c.i} ELSE @,
                  !.i = IF cand.readable THEN @ + 1 ELSE Len(c.cands) + 1]

\* lines 306-317: score one candidate; an unreadable one is skipped.  scored is
\* the set of candidates whose score was computed
ScanStep(c) ==
    LET cand == c.cands[c.i]
        better == cand.readable /\ cand.score > c.best_score
    IN  [c EXCEPT !.best_score = IF better THEN cand.score ELSE @,
                  !.best_element = IF better THEN c.i ELSE @,
                  !.scored = IF cand.readable THEN @ \cup {c.i} ELSE @,
                  !.i = @ + 1]

ClickScan ==
    /\ click.pc = "scan" /\ click.i <= Len(click.cands)
    /\ click' = ScanStep(click)
    /\ UNCHANGED <<req, file, host, scroll, label, synth, repair, jobid, client, outer>>

\* lines 319-333: click the best element if it reaches the threshold; readOk and
\* clickOk are whether inner_text() and click() of that element return
DecideStep(c, readOk, clickOk) ==
    IF MeetsThreshold(c.best_score, c.best_element)
    THEN IF readOk /\ clickOk
         THEN [c EXCEPT !.clicked = c.best_element, !.result = TRUE, !.pc = "done"]
         ELSE [c EXCEPT !.failed = TRUE, !.result = FALSE, !.pc = "done"]
    ELSE [c EXCEPT !.result = FALSE, !.pc = "done"]

ClickDecide ==
    /\ click.pc = "scan" /\ click.i > Len(click.cands)
    /\ \E readOk \in BOOLEAN : \E clickOk \in BOOLEAN :
          click' = DecideStep(click, readOk, clickOk)
    /\ UNCHANGED <<req, file, host, scroll, label, synth, repair, jobid, client, outer>>

InitClick ==
    /\ req = [r \in Requests |-> Idle] /\ file = NoFile /\ host = {}
    /\ jobid = Unused /\ client = Unused /\ OuterUnused
    /\ \E cands \in CandidateLists : click = ClickIdle(cands)
    /\ scroll = Unused /\ label = Unused /\ synth = Unused /\ repair = Unused

NextClick == ClickWait \/ ClickScan \/ ClickDecide

SpecClick == InitClick /\ [][NextClick]_vars

\* the best score among the given candidates, 0 when there is none
BestOf(cs) == IF cs = {} THEN 0 ELSE Max({c.score : c \in cs})

AllCandidates(c) == {c.cands[n] : n \in 1..Len(c.cands)}
ReadableCandidates(c) == {x \in AllCandidates(c) : x.readable}

\* C6 as stated: an element is clicked, and success reported, exactly when the best
\* score among the page's clickable elements is at least 0.7.
C6_ClickIffThreshold ==
    click.pc = "done" =>
        /\ click.clicked # 0 <=> BestOf(AllCandidates(click)) >= 70
        /\ click.result <=> BestOf(AllCandidates(click)) >= 70

\* C6 amended: success is reported exactly when an element was clicked; the element
\* clicked is the first with the highest score among the candidates whose text was
\* read, and that score is at least 0.7; if the wait succeeded, that score is at
\* least 0.7 and neither reading nor clicking the element failed, it is clicked;
\* below 0.7, or after a timed-out wait, nothing is clicked and failure is reported.
C6_ClickAmended ==
    click.pc = "done" =>
        LET best == BestOf(ReadableCandidates(click))
        IN  /\ click.result <=> click.clicked # 0
            /\ click.clicked # 0 =>
                  /\ best >= 70
                  /\ click.cands[click.clicked].readable
                  /\ click.cands[click.clicked].score = best
                  /\ \A n \in 1..(click.clicked - 1) :
                        click.cands[n].readable => click.cands[n].score < best
            /\ click.waited /\ best >= 70 /\ ~click.failed => click.clicked # 0
            /\ best < 70 \/ ~click.waited => click.clicked = 0 /\ ~click.result

\* C6 witness: the best score is exactly 0.7 and the element was clicked
C6_ClickedAtThreshold ==
    click.pc = "done" /\ click.best_score = 70 /\ click.clicked # 0 /\ click.result

\* the scan of the candidates has ended
C26_Scanned == click.waited /\ click.i > Len(click.cands)

\* the positions of the candidates whose text can be read
C26_Readable == {n \in 1..Len(click.cands) : click.cands[n].readable}

\* C26: when the scan ends, every candidate whose text could be read has been
\* scored, however many others could not be read, and the element retained is the
\* first of the readable candidates with the highest score (no element is retained
\* when that score is 0, the score the scan starts from).
C26_ScanKeepsFirstBest ==
    C26_Scanned =>
        LET best == BestOf(ReadableCandidates(click)) IN
        /\ click.scored = C26_Readable
        /\ click.best_score = best
        /\ best = 0 => click.best_element = 0
        /\ best > 0 =>
              /\ click.best_element \in C26_Readable
              /\ click.cands[click.best_element].score = best
              /\ \A n \in C26_Readable :
                    click.cands[n].score = best => n >= click.best_element

\* C26 witness: the first candidate could not be read, the two after it were
\* scored with the same score, and the earlier of the two is retained
C26_TieAfterUnreadable ==
    /\ C26_Scanned /\ Len(click.cands) = 3
    /\ ~click.cands[1].readable /\ click.scored = {2, 3}
    /\ click.cands[2].score = 70 /\ click.cands[3].score = 70
    /\ click.best_element = 2


(***************************************************************************)
(* find_first_expand_button_label: one call on one LLM response            *)
(***************************************************************************)
MaxLabelLines == 2        \* lines per response

\* the lines responses are made of
LabelLines ==
    { "- Read More", "- See More", "- Get Started", "* Accept COOKIE",
      "@ View Job", "- Privacy ~", "- Cook~ie", "- ~", "-",
      "Read More", "show more", "no button found" }

RECURSIVE LabelTexts(_)
LabelTexts(n) ==
    IF n = 1 THEN LabelLines
    ELSE {t \o "\n" \o l : t \in LabelTexts(n - 1), l \in LabelLines}

\* the responses of at most MaxLabelLines lines, and the empty response
LabelResponses ==
    {"", "- Read More\n- See More\n- Get Started"}
    \cup UNION {LabelTexts(n) : n \in 1..MaxLabelLines}

LabelCall ==
    /\ label.pc = "call"
    /\ label' = [label EXCEPT !.pc = "returned",
                    !.out = find_first_expand_button_label(label.llmOk, label.response)]
    /\ UNCHANGED <<req, file, host, scroll, click, synth, repair, jobid, client, outer>>

InitLabel ==
    /\ req = [r \in Requests |-> Idle] /\ file = NoFile /\ host = {}
    /\ jobid = Unused /\ client = Unused /\ OuterUnused
    /\ \E llmOk \in BOOLEAN :
       \E response \in (IF llmOk THEN LabelResponses ELSE {""}) :
          label = [pc |-> "call", llmOk |-> llmOk, response |-> response, out |-> None]
    /\ scroll = Unused /\ click = Unused /\ synth = Unused /\ repair = Unused

NextLabel == LabelCall

SpecLabel == InitLabel /\ [][NextLabel]_vars

\* the terms of the blacklist, in lower case
C7_Terms ==
    {"cookie", "settings", "privacy", "consent", "dismiss",
     "view job", "viewjob", "get started", "reviews"}

\* C7: the label returned, from a bullet line or from the fallback vocabulary,
\* contains no blacklist term, whatever the case of its letters.
C7_NoBlacklistedLabel ==
    label.pc = "returned" /\ label.out.some =>
        \A term \in C7_Terms : ~Contains(Lower(label.out.val), term)

\* C7 witness: a response whose first bullet is blacklisted in upper case, and a
\* later label was returned
C7_SkippedBlacklisted ==
    /\ label.pc = "returned" /\ label.out = Some("Read More")
    /\ label.response = "* Accept COOKIE\n- Read More"

(***************************************************************************)
(* process_text_with_llm: one call of either variant                       *)
(***************************************************************************)
SynthTexts == {"", " \n", "Job A"}

SynthCall ==
    /\ synth.pc = "call"
    /\ LET out == IF synth.variant = "adaptive"
                  THEN process_text_with_llm(synth.text_content, synth.llmOk,
                                             synth.response)
                  ELSE process_text_with_llm_linkedin(synth.text_content, synth.llmOk,
                                                      synth.response)
       IN  synth' = [synth EXCEPT !.pc = "done", !.status = out.status,
                                  !.result = out.result, !.exc = out.exc]
    /\ UNCHANGED <<req, file, host, scroll, click, label, repair, jobid, client, outer>>

InitSynth ==
    /\ req = [r \in Requests |-> Idle] /\ file = NoFile /\ host = {}
    /\ jobid = Unused /\ client = Unused /\ OuterUnused
    /\ \E variant \in {"adaptive", "linkedin"} : \E text \in SynthTexts :
       \E llmOk \in BOOLEAN :
       \E response \in (IF llmOk THEN SynthResponses ELSE {""}) :
          synth = [pc |-> "call", variant |-> variant, text_content |-> text,
                   llmOk |-> llmOk, response |-> response,
                   status |-> "running", result |-> NoResult, exc |-> ""]
    /\ scroll = Unused /\ click = Unused /\ label = Unused /\ repair = Unused

NextSynth == SynthCall

SpecSynth == InitSynth /\ [][NextSynth]_vars

\* C9: for every response of the LLM, the Structured Data Synthesizer (the
\* process_text_with_llm of the visual pipeline) returns a mapping, the parsed object
\* or the record {"error": "Failed to parse JSON response."}, and raises nothing.
C9_SynthReturnsMapping ==
    synth.pc = "done" /\ synth.variant = "adaptive" /\ synth.llmOk
    /\ Strip(synth.text_content) # "" =>
        /\ synth.status = "returned"
        /\ \/ synth.result.tag = "record"
           \/ synth.result = Err("Failed to parse JSON response.")

(***************************************************************************)
(* The repair cascade applied to one string, and again to its own output   *)
(***************************************************************************)
MaxRepairTokens == 3      \* tokens between the braces of an input

RepairTokens == {"\"a\"", "a", ":", "1", ",", "\\", " "}

RECURSIVE TokenStrings(_)
TokenStrings(n) ==
    IF n = 0 THEN {""}
    ELSE {t \o k : t \in TokenStrings(n - 1), k \in RepairTokens}

\* an object-like block around at most MaxRepairTokens tokens, and two texts
\* without any block
RepairInputs ==
    {"{" \o t \o "}" : t \in UNION {TokenStrings(n) : n \in 0..MaxRepairTokens}}
    \cup {"", "no json"}

RepairOnce ==
    /\ repair.pc = "input"
    /\ LET out == RepairCascade(repair.input)
       IN  repair' = IF out.some THEN [repair EXCEPT !.pc = "once", !.first = out.val]
                     ELSE [repair EXCEPT !.pc = "raised"]
    /\ UNCHANGED <<req, file, host, scroll, click, label, synth, jobid, client, outer>>

RepairAgain ==
    /\ repair.pc = "once"
    /\ LET out == RepairCascade(repair.first)
       IN  repair' = IF out.some THEN [repair EXCEPT !.pc = "twice", !.second = out.val]
                     ELSE [repair EXCEPT !.pc = "raised"]
    /\ UNCHANGED <<req, file, host, scroll, click, label, synth, jobid, client, outer>>

InitRepair ==
    /\ req = [r \in Requests |-> Idle] /\ file = NoFile /\ host = {}
    /\ jobid = Unused /\ client = Unused /\ OuterUnused
    /\ \E input \in RepairInputs :
          repair = [pc |-> "input", input |-> input, first |-> "", second |-> ""]
    /\ scroll = Unused /\ click = Unused /\ label = Unused /\ synth = Unused

NextRepair == RepairOnce \/ RepairAgain

SpecRepair == InitRepair /\ [][NextRepair]_vars

\* C10: the cascade, run again on its own output, yields the same string.
C10_RepairIdempotent ==
    repair.pc = "twice" => repair.second = repair.first

\* the responses whose only defect is a thousands comma, bare or inside prose
C11_Responses ==
    { "{\"title\": \"Engineer\", \"years\": 3,500}",
      "Here: {\"title\": \"Engineer\", \"years\": 3,500} done" }

\* C11: a response whose only defect is the thousands comma in 3,500 is returned by
\* the Structured Data Synthesizer as the parsed record with "years": 3500, not as
\* an error record.
C11_ThousandsCommaRepaired ==
    synth.pc = "done" /\ synth.llmOk /\ Strip(synth.text_content) # ""
    /\ synth.response \in C11_Responses =>
        /\ synth.status = "returned"
        /\ synth.result = Parsed("{\"title\": \"Engineer\", \"years\": 3500}")

(***************************************************************************)
(* extract_job_id (linkedin_scraper.py): one call on one URL               *)
(***************************************************************************)

\* length of the run of \d from p on
DigitRun(s, p) ==
    LET stops == {q \in p..(Len(s) + 1) : ~IsDigit(Ch(s, q))}
    IN  Min(stops) - p

\* re.fullmatch(r"\d+", job_url)
FullMatchDigits(job_url) == Len(job_url) >= 1 /\ DigitRun(job_url, 1) = Len(job_url)

\* re.search(prefix + r"(\d+)", s) from position p on: group 1 of the leftmost match
RECURSIVE SearchIdFrom(_, _, _)
SearchIdFrom(s, prefix, p) ==
    IF p > Len(s) THEN None
    ELSE LET a == p + Len(prefix)
             n == DigitRun(s, a)
         IN  IF Sub(s, p, a - 1) = prefix /\ n >= 1 THEN Some(Sub(s, a, a + n - 1))
             ELSE SearchIdFrom(s, prefix, p + 1)

SearchId(s, prefix) == SearchIdFrom(s, prefix, 1)

\* extract_job_id with the two searches in the other order
extract_job_id_QueryFirst(job_url) ==
    IF FullMatchDigits(job_url) THEN Some(job_url)
    ELSE IF SearchId(job_url, "currentJobId=").some
    THEN SearchId(job_url, "currentJobId=")
    ELSE SearchId(job_url, "/jobs/view/")

\* extract_job_id(job_url), lines 28-41
extract_job_id(job_url) ==
    IF FullMatchDigits(job_url) THEN Some(job_url)
    ELSE IF SearchId(job_url, "/jobs/view/").some
    THEN SearchId(job_url, "/jobs/view/")
    ELSE SearchId(job_url, "currentJobId=")

MaxUrlTokens == 4         \* tokens per URL

UrlTokens == {"/jobs/view/", "currentJobId=", "41", "5", "x", "?", "linkedin.com"}

RECURSIVE UrlStrings(_)
UrlStrings(n) ==
    IF n = 0 THEN {""}
    ELSE {t \o k : t \in UrlStrings(n - 1), k \in UrlTokens}

\* the URLs of the docstring, and every string of at most MaxUrlTokens tokens
JobUrls ==
    { "https://www.linkedin.com/jobs/view/4150892998/?alternateChannel=search",
      "https://www.linkedin.com/jobs/collections/recommended/?currentJobId=4150892998",
      "4150892998" }
    \cup UNION {UrlStrings(n) : n \in 0..MaxUrlTokens}

JobIdCall ==
    /\ jobid.pc = "call"
    /\ jobid' = [jobid EXCEPT !.pc = "returned", !.out = extract_job_id(jobid.job_url)]
    /\ UNCHANGED <<req, file, host, scroll, click, label, synth, repair, client, outer>>

InitJobId ==
    /\ req = [r \in Requests |-> Idle] /\ file = NoFile /\ host = {}
    /\ client = Unused /\ OuterUnused
    /\ \E job_url \in JobUrls : jobid = [pc |-> "call", job_url |-> job_url, out |-> None]
    /\ scroll = Unused /\ click = Unused /\ label = Unused
    /\ synth = Unused /\ repair = Unused

NextJobId == JobIdCall

SpecJobId == InitJobId /\ [][NextJobId]_vars

\* C12: the result is the input when it is all digits; otherwise the digits after the
\* first "/jobs/view/" that digits follow; otherwise the digits after the first
\* "currentJobId=" that digits follow; otherwise None.  The path wins over the query,
\* and a result that is not None is a non-empty string of digits.
C12_JobIdRule ==
    jobid.pc = "returned" =>
        LET u == jobid.job_url
            AllDigits(t) == Len(t) >= 1 /\ \A i \in 1..Len(t) : IsDigit(Ch(t, i))
            Hits(lit) == {i \in 1..Len(u) : /\ Sub(u, i, i + Len(lit) - 1) = lit
                                            /\ IsDigit(Ch(u, i + Len(lit)))}
            RunAfter(lit) ==
                LET a == Min(Hits(lit)) + Len(lit)
                    e == Max({j \in a..Len(u) : \A k \in a..j : IsDigit(Ch(u, k))})
                IN  Sub(u, a, e)
            expected == IF AllDigits(u) THEN Some(u)
                        ELSE IF Hits("/jobs/view/") # {} THEN Some(RunAfter("/jobs/view/"))
                        ELSE IF Hits("currentJobId=") # {} THEN Some(RunAfter("currentJobId="))
                        ELSE None
        IN  /\ jobid.out = expected
            /\ jobid.out.some => AllDigits(jobid.out.val)
            /\ u = "https://www.linkedin.com/jobs/view/4150892998/?alternateChannel=search"
                  => jobid.out = Some("4150892998")

\* C12 witness: a URL with both forms, the query first; the id of the path is returned
C12_PathBeforeQuery ==
    /\ jobid.pc = "returned" /\ jobid.job_url = "currentJobId=41/jobs/view/5"
    /\ jobid.out = Some("5")

(***************************************************************************)
(* ScraperClient.scrape_job_data (project/app/clients/scraper_client.py)   *)
(* with the two paths it routes to: scrape_linkedin_job (linkedin_scraper) *)
(* and main_adaptive_scraper, run as request 1 of the pipeline above.      *)
(***************************************************************************)

\* the URLs a call is made with
ClientUrls ==
    { "https://www.linkedin.com/jobs/view/12345",
      "https://www.linkedin.com/jobs/collections/recommended/?currentJobId=123",
      "https://www.LinkedIn.com/jobs/view/12345",
      "https://www.linkedin.com/jobs/view/abc",
      "https://www.linkedin.com/JOBS/VIEW/12345",
      "https://www.linkedin.com/jobs/collections/",
      "https://x.com/?next=linkedin.com/jobs/view/7",
      "https://www.linkedin.com/jobs/search/?currentJobId=5",
      "https://www.example.com/job/post/6789",
      "" }

\* IsLinkedInUrl without the lower(): the test is case-sensitive
IsLinkedInUrlCaseSensitive(url) ==
    \/ Contains(url, "linkedin.com/jobs/view/")
    \/ Contains(url, "linkedin.com/jobs/collections/")

\* line 59: the routing test
IsLinkedInUrl(url) ==
    \/ Contains(Lower(url), "linkedin.com/jobs/view/")
    \/ Contains(Lower(url), "linkedin.com/jobs/collections/")

\* what a request to the guest API ends with: a body, or an exception with its
\* message (the message of asyncio.TimeoutError is empty)
FetchBodies == {"<p>Job A</p>", ""}
FetchErrors == {"timeout", ""}

\* fetch_job_detail with nothing returned for a failed request
fetch_job_detail_Blank(ok, text) == IF ok THEN text ELSE ""

\* fetch_job_detail, lines 49-54: the body, or "Error: " and the message of the
\* exception
fetch_job_detail(ok, text) == IF ok THEN text ELSE "Error: " \o text

\* extract_relevant_text on these texts: none has the description sections, so the
\* stripped text of the whole document is returned (lines 93-96)
extract_relevant_text(html_content) ==
    IF html_content = "<p>Job A</p>" THEN "Job A" ELSE Strip(html_content)

\* bool(job_data) of line 79: only the empty mapping is falsy
IsEmptyMapping(result) == result = Parsed("{}")

ClientIdle(url) ==
    [pc |-> "call", url |-> url, path |-> "none", linkedinCalls |-> 0,
     adaptiveCalls |-> 0, job_id |-> None, fetches |-> 0, raw_html |-> "",
     llmCalls |-> 0, inner |-> Returned(NoResult),
     status |-> "running", result |-> NoResult, exc |-> "",
     fetchFailed |-> FALSE, fetchError |-> "", llmText |-> ""]

\* the URLs of ClientUrls that line 59 routes to the LinkedIn path
LinkedInUrls == {url \in ClientUrls : IsLinkedInUrl(url)}

\* lines 51-70: the URL check and the routing
ClientCall ==
    /\ client.pc = "call"
    /\ IF client.url = ""
       THEN /\ client' = [client EXCEPT !.pc = "done", !.status = "raised",
                                        !.exc = "ValueError"]
            /\ req' = req
       ELSE IF client.url \in LinkedInUrls
       THEN /\ client' = [client EXCEPT !.pc = "fast_id", !.path = "linkedin",
                                        !.linkedinCalls = @ + 1]
            /\ req' = req
       ELSE /\ client' = [client EXCEPT !.pc = "visual", !.path = "adaptive",
                                        !.adaptiveCalls = @ + 1]
            /\ req' = [req EXCEPT ![1] = Started]
    /\ UNCHANGED <<file, host, scroll, click, label, synth, repair, jobid, outer>>

\* scrape_linkedin_job, lines 249-252: the job id, ValueError without one
FastExtractId ==
    /\ client.pc = "fast_id"
    /\ LET job_id == extract_job_id(client.url)
       IN  client' = IF job_id.some
                     THEN [client EXCEPT !.job_id = job_id, !.pc = "fast_fetch"]
                     ELSE [client EXCEPT !.inner = Raised("ValueError"), !.pc = "finish"]
    /\ UNCHANGED <<req, file, host, scroll, click, label, synth, repair, jobid, outer>>

\* scrape_linkedin_job, lines 255-256: asyncio.run(fetch_all_jobs([job_id])); the
\* event loop or the session may fail outside fetch_job_detail's handler
FastFetch ==
    /\ client.pc = "fast_fetch"
    /\ \E ok \in BOOLEAN : \E got \in BOOLEAN :
       \E text \in (IF ~ok THEN {""} ELSE IF got THEN FetchBodies ELSE FetchErrors) :
          client' = IF ok
                    THEN [client EXCEPT !.fetches = @ + 1,
                                        !.raw_html = fetch_job_detail(got, text),
                                        !.fetchFailed = ~got,
                                        !.fetchError = IF got THEN "" ELSE text,
                                        !.pc = "fast_structure"]
                    ELSE [client EXCEPT !.fetches = @ + 1,
                                        !.inner = Raised("RuntimeError"), !.pc = "finish"]
    /\ UNCHANGED <<req, file, host, scroll, click, label, synth, repair, jobid, outer>>

\* scrape_linkedin_job, lines 259-263: the relevant text and the structuring call
FastStructure ==
    /\ client.pc = "fast_structure"
    /\ \E llmOk \in BOOLEAN :
       \E response_text \in (IF llmOk THEN PipelineSynthResponses ELSE {""}) :
          LET relevant_text == extract_relevant_text(client.raw_html)
          IN  client' = [client EXCEPT
                  !.llmCalls = @ + (IF Strip(relevant_text) # "" THEN 1 ELSE 0),
                  !.llmText = IF Strip(relevant_text) # "" THEN relevant_text ELSE "",
                  !.inner = process_text_with_llm_linkedin(relevant_text, llmOk,
                                                           response_text),
                  !.pc = "finish"]
    /\ UNCHANGED <<req, file, host, scroll, click, label, synth, repair, jobid, outer>>

\* line 70: main_adaptive_scraper(url, key) runs as request 1
VisualStep ==
    /\ client.pc = "visual" /\ req[1].pc # "done"
    /\ PipelineStep(1)

\* line 70: main_adaptive_scraper has returned or raised
VisualEnd ==
    /\ client.pc = "visual" /\ req[1].pc = "done"
    /\ client' = [client EXCEPT !.pc = "finish",
                     !.inner = [status |-> req[1].status, result |-> req[1].result,
                                exc |-> req[1].exc]]
    /\ UNCHANGED <<req, file, host, scroll, click, label, synth, repair, jobid, outer>>

\* lines 71-84: an exception of the path becomes ConnectionError, an empty result
\* ValueError, anything else is returned
ClientFinish ==
    /\ client.pc = "finish"
    /\ client' =
          IF client.inner.status = "raised"
          THEN [client EXCEPT !.pc = "done", !.status = "raised", !.exc = "ConnectionError"]
          ELSE IF IsEmptyMapping(client.inner.result)
          THEN [client EXCEPT !.pc = "done", !.status = "raised", !.exc = "ValueError"]
          ELSE [client EXCEPT !.pc = "done", !.status = "returned",
                              !.result = client.inner.result]
    /\ UNCHANGED <<req, file, host, scroll, click, label, synth, repair, jobid, outer>>

InitClient ==
    /\ req = [r \in Requests |-> Idle] /\ file = NoFile
    /\ host \in SUBSET Engines
    /\ \E url \in ClientUrls : client = ClientIdle(url)
    /\ jobid = Unused /\ OuterUnused
    /\ scroll = Unused /\ click = Unused /\ label = Unused
    /\ synth = Unused /\ repair = Unused

NextClient ==
    \/ ClientCall \/ FastExtractId \/ FastFetch \/ FastStructure
    \/ VisualStep \/ VisualEnd \/ ClientFinish

SpecClient == InitClient /\ [][NextClient]_vars

\* C13: a URL routed to the fast path from which no posting id can be extracted ends
\* with an error record returned to the caller, not with an exception, and without
\* any fetch or LLM call.
C13_NoIdIsErrorRecord ==
    client.pc = "done" /\ client.path = "linkedin"
    /\ ~extract_job_id(client.url).some =>
        /\ client.status = "returned" /\ client.result.tag = "error"
        /\ client.fetches = 0 /\ client.llmCalls = 0

\* the URLs whose lower-cased form contains one of the two LinkedIn job paths
C20_Matching ==
    {url \in ClientUrls : \/ Contains(Lower(url), "linkedin.com/jobs/view/")
                          \/ Contains(Lower(url), "linkedin.com/jobs/collections/")}

\* C20: a call with a non-empty URL invokes exactly one path, once: the LinkedIn path
\* exactly when the lower-cased URL contains "linkedin.com/jobs/view/" or
\* "linkedin.com/jobs/collections/", the visual pipeline otherwise; the fast path
\* launches no browser.
C20_ExactlyOnePath ==
    LET hit == client.url \in C20_Matching
    IN  /\ client.linkedinCalls + client.adaptiveCalls <= 1
        /\ client.pc # "call" /\ client.url # "" =>
              /\ client.linkedinCalls = (IF hit THEN 1 ELSE 0)
              /\ client.adaptiveCalls = (IF hit THEN 0 ELSE 1)
        /\ client.linkedinCalls = 1 =>
              /\ req[1].launched = <<>> /\ req[1].playwright = "none"
              /\ ~req[1].browserOpen

\* C20 witness: a URL that matches only after lower-casing went through the
\* LinkedIn path to its end
C20_MixedCaseFastPath ==
    /\ client.pc = "done" /\ client.url = "https://www.LinkedIn.com/jobs/view/12345"
    /\ client.linkedinCalls = 1 /\ client.adaptiveCalls = 0 /\ client.status = "returned"

\* C14: at the step by which a call of extract_text_from_image returns, for any
\* request and after OCR that succeeded or failed, no file exists at the path it was
\* given; and when no request is running no screenshot file exists.
C14_ScreenshotDeleted ==
    /\ [][\A r \in Requests :
             req[r].pc \in {"ocr_exists", "ocr_remove"} /\ req'[r].pc = "after_ocr"
                 => ~file'.exists]_vars
    /\ []((\A r \in Requests : req[r].pc \in {"idle", "done"}) => ~file.exists)

\* C15: a navigation that times out is retried once; the navigation-timeout error is
\* returned only after a second attempt, and no request navigates more than twice.
C15_NavigationRetried ==
    /\ req[1].gotoCalls <= 2
    /\ req[1].pc = "done" /\ req[1].result = Err("Page navigation timed out.")
          => req[1].gotoCalls = 2

\* C16: the click on the proposed label is the Fuzzy Element Matcher's: the element
\* clicked is the clickable element most similar to the label, and nothing is clicked
\* when the best similarity is below the threshold.
C16_ClickIsFuzzyMatch ==
    req[1].clicks > 0 => req[1].clickMatch = "best"

\* bullet lines and the label each carries
C17_Lines == {"- Read More", "- See More", "- Get Started", "* Accept COOKIE", "@ View Job"}

C17_Label(line) == SubSeq(line, 3, Len(line))

RECURSIVE C17_Join(_)
C17_Join(ls) ==
    IF Len(ls) = 1 THEN ls[1] ELSE ls[1] \o "\n" \o C17_Join(Tail(ls))

\* the labels of the lines ls that contain no blacklist term, in order
C17_Survivors(ls) ==
    LET Clean(line) == \A term \in C7_Terms : ~Contains(Lower(C17_Label(line)), term)
        kept == SelectSeq(ls, Clean)
    IN  [n \in 1..Len(kept) |-> C17_Label(kept[n])]

\* C17: for a response of bullet lines, the label returned is the first one, in the
\* order of the response, that survives the blacklist; for "- Read More",
\* "- See More", "- Get Started" the survivors are <<"Read More", "See More">> and the
\* label returned is "Read More".
C17_FirstSurvivor ==
    label.pc = "returned" /\ label.llmOk =>
        /\ \A n \in 1..3 : \A ls \in [1..n -> C17_Lines] :
              label.response = C17_Join(ls) /\ C17_Survivors(ls) # <<>>
                  => label.out = Some(C17_Survivors(ls)[1])
        /\ label.response = "- Read More\n- See More\n- Get Started" =>
              /\ C17_Survivors(<<"- Read More", "- See More", "- Get Started">>)
                    = <<"Read More", "See More">>
              /\ ValidButtons(label.response) = <<"Read More", "See More">>
              /\ label.out = Some("Read More")

\* C17 witness: the response of three bullets, the third blacklisted
C17_ThreeBullets ==
    /\ label.pc = "returned" /\ label.out = Some("Read More")
    /\ label.response = "- Read More\n- See More\n- Get Started"

\* C18: when the response has bulleted items and none survives the blacklist, the
\* fallback vocabulary is not consulted and None is returned.
C18_FallbackOnlyWithoutBullets ==
    label.pc = "returned" /\ label.llmOk
    /\ Len(FindAllBullets(label.response, 1)) > 0
    /\ Len(ValidButtons(label.response)) = 0
        => label.out = None

\* C19: when the label proposal failed or gave no label, nothing is clicked, no second
\* screenshot is read, the request goes on to close the browser, and it ends having
\* made the structuring call with the initial text.
C19_NoLabelNoExpansion ==
    req[1].labelCalls = 1 /\ (~req[1].button_text.some \/ req[1].button_text.val = "") =>
        /\ req[1].clicks = 0 /\ req[1].shot = 1 /\ req[1].reads = 1
        /\ req[1].final_text = req[1].initial_text
        /\ req[1].pc \in {"close", "structure", "done"}
        /\ req[1].pc \in {"structure", "done"} => req[1].closeCalls = 1 /\ ~req[1].browserOpen
        /\ req[1].pc = "done" => req[1].structCalls = 1

\* C19 witness: the proposal call failed and the request returned a structured record
C19_StructuredWithoutLabel ==
    /\ req[1].pc = "done" /\ req[1].labelCalls = 1 /\ req[1].button_text = None
    /\ req[1].structCalls = 1 /\ req[1].result.tag = "record"


(***************************************************************************)
(* Python values and their JSON text.  A value is a tagged tree:           *)
(*   t  "str" | "int" | "list" | "tuple" | "set" | "dict" | "item"         *)
(*   s  the text of a str, the decimal digits of an int                    *)
(*   xs the members of a list, tuple or set; the items of a dict, in       *)
(*      insertion order; the key and the value of an item                  *)
(***************************************************************************)
PyStr(s) == [t |-> "str", s |-> s, xs |-> <<>>]
PyInt(digits) == [t |-> "int", s |-> digits, xs |-> <<>>]
PyList(xs) == [t |-> "list", s |-> "", xs |-> xs]
PyTuple(xs) == [t |-> "tuple", s |-> "", xs |-> xs]
PySet(xs) == [t |-> "set", s |-> "", xs |-> xs]
PyItem(k, v) == [t |-> "item", s |-> "", xs |-> <<k, v>>]
PyDict(items) == [t |-> "dict", s |-> "", xs |-> items]
PyNone == [t |-> "None", s |-> "", xs |-> <<>>]

\* the mapping that ast.literal_eval or json.loads made of a record text of the model
\* (library code: the value of each text is recorded here)
LiteralValue(text) ==
    CASE text \in { "{\"title\": \"Engineer\"}", "{'title': 'Engineer'}",
                    "{\"title\": \"Engineer\",}" } ->
            PyDict(<<PyItem(PyStr("title"), PyStr("Engineer"))>>)
      [] text = "{\"title\": \"Engineer\", \"years\": 3500}" ->
            PyDict(<<PyItem(PyStr("title"), PyStr("Engineer")),
                     PyItem(PyStr("years"), PyInt("3500"))>>)
      [] text = "{\"skills\": [\"a\", \"b\"]}" ->
            PyDict(<<PyItem(PyStr("skills"), PyList(<<PyStr("a"), PyStr("b")>>))>>)
      [] text = "{1: \"a\"}" -> PyDict(<<PyItem(PyInt("1"), PyStr("a"))>>)
      [] text = "{\"1\": \"a\"}" -> PyDict(<<PyItem(PyStr("1"), PyStr("a"))>>)
      [] text = "{\"tags\": {\"a\"}}" ->
            PyDict(<<PyItem(PyStr("tags"), PySet(<<PyStr("a")>>))>>)
      [] OTHER -> PyDict(<<>>)                                   \* "{}"

\* the Python value of a result of the pipeline or of the fast path
PyValue(result) ==
    IF result.tag = "error" THEN PyDict(<<PyItem(PyStr("error"), PyStr(result.val))>>)
    ELSE LiteralValue(result.val)

\* json.dumps of a str: quoted, with the quote, the backslash and the newline escaped
RECURSIVE JsonEscapeFrom(_, _)
JsonEscapeFrom(s, p) ==
    IF p > Len(s) THEN ""
    ELSE (CASE Ch(s, p) = "\"" -> "\\\""
            [] Ch(s, p) = "\\" -> "\\\\"
            [] Ch(s, p) = "\n" -> "\\n"
            [] OTHER -> Ch(s, p)) \o JsonEscapeFrom(s, p + 1)

JsonString(s) == "\"" \o JsonEscapeFrom(s, 1) \o "\""

\* json.dumps(value) with the default separators: Some(text), or None for the
\* TypeError of a value that is not serializable.  A dict key that is an int is
\* written as the string of its digits; a tuple is written as an array.
RECURSIVE JsonDumps(_), JsonDumpsAll(_, _)
JsonDumpsAll(xs, i) ==
    IF i > Len(xs) THEN Some("")
    ELSE LET head == JsonDumps(xs[i])
             rest == JsonDumpsAll(xs, i + 1)
         IN  IF ~head.some \/ ~rest.some THEN None
             ELSE Some(head.val \o (IF i < Len(xs) THEN ", " ELSE "") \o rest.val)

JsonDumps(value) ==
    CASE value.t = "str" -> Some(JsonString(value.s))
      [] value.t = "int" -> Some(value.s)
      [] value.t \in {"list", "tuple"} ->
            LET members == JsonDumpsAll(value.xs, 1)
            IN  IF members.some THEN Some("[" \o members.val \o "]") ELSE None
      [] value.t = "dict" ->
            LET items == JsonDumpsAll(value.xs, 1)
            IN  IF items.some THEN Some("{" \o items.val \o "}") ELSE None
      [] value.t = "item" ->
            LET k == value.xs[1]
                v == JsonDumps(value.xs[2])
                key == IF k.t = "str" THEN Some(JsonString(k.s))
                       ELSE IF k.t = "int" THEN Some("\"" \o k.s \o "\"")
                       ELSE None
            IN  IF key.some /\ v.some THEN Some(key.val \o ": " \o v.val) ELSE None
      [] OTHER -> None

\* json.loads(text), on the JSON of strings, integers, arrays, objects and the three
\* literals: a parse is [ok, v, p] with v the value read and p the position after it
PyBool(name) == [t |-> "bool", s |-> name, xs |-> <<>>]
ParseFail == [ok |-> FALSE, v |-> PyNone, p |-> 0]
ParseOk(v, p) == [ok |-> TRUE, v |-> v, p |-> p]

\* the characters of a string from p (after the opening quote) to its closing quote
RECURSIVE ParseStringFrom(_, _, _)
ParseStringFrom(s, p, acc) ==
    IF p > Len(s) \/ Ch(s, p) = "\n" THEN ParseFail
    ELSE IF Ch(s, p) = "\"" THEN ParseOk(PyStr(acc), p + 1)
    ELSE IF Ch(s, p) = "\\" THEN
        (CASE Ch(s, p + 1) = "\"" -> ParseStringFrom(s, p + 2, acc \o "\"")
           [] Ch(s, p + 1) = "\\" -> ParseStringFrom(s, p + 2, acc \o "\\")
           [] Ch(s, p + 1) = "n" -> ParseStringFrom(s, p + 2, acc \o "\n")
           [] OTHER -> ParseFail)
    ELSE ParseStringFrom(s, p + 1, acc \o Ch(s, p))

\* dict[k] = v: a key already present keeps its place and takes the new value
DictSet(items, k, v) ==
    IF \E i \in 1..Len(items) : items[i].xs[1] = k
    THEN [i \in 1..Len(items) |-> IF items[i].xs[1] = k THEN PyItem(k, v) ELSE items[i]]
    ELSE Append(items, PyItem(k, v))

RECURSIVE ParseValue(_, _), ParseElements(_, _, _), ParseMembers(_, _, _)
ParseValue(s, p0) ==
    LET p == p0 + WsRun(s, p0)
        n == DigitRun(s, p)
    IN  CASE Ch(s, p) = "\"" -> ParseStringFrom(s, p + 1, "")
          [] n >= 1 ->
                IF n > 1 /\ Ch(s, p) = "0" THEN ParseOk(PyInt("0"), p + 1)
                ELSE ParseOk(PyInt(Sub(s, p, p + n - 1)), p + n)
          [] Sub(s, p, p + 3) = "null" -> ParseOk(PyNone, p + 4)
          [] Sub(s, p, p + 3) = "true" -> ParseOk(PyBool("True"), p + 4)
          [] Sub(s, p, p + 4) = "false" -> ParseOk(PyBool("False"), p + 5)
          [] Ch(s, p) = "[" ->
                LET q == p + 1 + WsRun(s, p + 1)
                IN  IF Ch(s, q) = "]" THEN ParseOk(PyList(<<>>), q + 1)
                    ELSE ParseElements(s, p + 1, <<>>)
          [] Ch(s, p) = "{" ->
                LET q == p + 1 + WsRun(s, p + 1)
                IN  IF Ch(s, q) = "}" THEN ParseOk(PyDict(<<>>), q + 1)
                    ELSE ParseMembers(s, p + 1, <<>>)
          [] OTHER -> ParseFail

\* the elements of an array from p on, up to its "]"
ParseElements(s, p, acc) ==
    LET e == ParseValue(s, p)
        q == e.p + WsRun(s, e.p)
    IN  IF ~e.ok THEN ParseFail
        ELSE IF Ch(s, q) = "," THEN ParseElements(s, q + 1, Append(acc, e.v))
        ELSE IF Ch(s, q) = "]" THEN ParseOk(PyList(Append(acc, e.v)), q + 1)
        ELSE ParseFail

\* the members of an object from p on, up to its "}"
ParseMembers(s, p0, acc) ==
    LET p == p0 + WsRun(s, p0)
        k == IF Ch(s, p) = "\"" THEN ParseStringFrom(s, p + 1, "") ELSE ParseFail
        c == k.p + WsRun(s, k.p)
        v == IF k.ok /\ Ch(s, c) = ":" THEN ParseValue(s, c + 1) ELSE ParseFail
        q == v.p + WsRun(s, v.p)
    IN  IF ~v.ok THEN ParseFail
        ELSE IF Ch(s, q) = "," THEN ParseMembers(s, q + 1, DictSet(acc, k.v, v.v))
        ELSE IF Ch(s, q) = "}" THEN ParseOk(PyDict(DictSet(acc, k.v, v.v)), q + 1)
        ELSE ParseFail

\* json.loads(text): Some(value), or None for JSONDecodeError
JsonParse(text) ==
    LET r == ParseValue(text, 1)
    IN  IF r.ok /\ r.p + WsRun(text, r.p) = Len(text) + 1 THEN Some(r.v) ELSE None


(***************************************************************************)
(* async_adaptive_scraper (project/tasks.py, lines 231-319): the task that *)
(* memoizes ScraperClient.scrape_job_data in Redis.  Calls of the task run *)
(* one after the other; the scraper call of a task runs the client model   *)
(* above.  Celery's automatic retry of a raised ConnectionError is a new   *)
(* call of the task.                                                       *)
(***************************************************************************)
MaxTaskCalls == 2

\* the URLs the task is called with: one for each path of the client
TaskUrls ==
    { "https://www.example.com/job/post/6789",
      "https://www.linkedin.com/jobs/view/12345" }

\* generate_cache_key(prefix, url): the key is made of the prefix and the URL, so
\* that distinct URLs have distinct keys
generate_cache_key(prefix, url) == prefix \o ":" \o url

TaskKeys == {generate_cache_key("scraper_data", url) : url \in TaskUrls}

\* line 289: flask_current_app.config.get("SCRAPER_CACHE_TTL_SECONDS", 3600)
SCRAPER_CACHE_TTL_SECONDS == 3600

\* the application's configuration: CACHE_SCRAPER_RESPONSES, whether a Redis client
\* and a scraper client were set up
TaskConfigs ==
    { [cache_enabled |-> TRUE, redis_client |-> TRUE, scraper_client |-> TRUE],
      [cache_enabled |-> FALSE, redis_client |-> TRUE, scraper_client |-> TRUE],
      [cache_enabled |-> TRUE, redis_client |-> FALSE, scraper_client |-> TRUE],
      [cache_enabled |-> TRUE, redis_client |-> TRUE, scraper_client |-> FALSE] }

\* a key of the store: the bytes held under it and their time to live.  origin and
\* via are history, not read by the code: the value the storing call returned, and
\* how that call's GET had ended
NoEntry == [present |-> FALSE, val |-> "", ttl |-> 0, origin |-> PyNone, via |-> "none"]
Entry(val, ttl, origin, via) ==
    [present |-> TRUE, val |-> val, ttl |-> ttl, origin |-> origin, via |-> via]

\* values found under a key that no call of this model stored: bytes that are not
\* JSON, and no bytes at all
ForeignEntries ==
    { Entry("{'title': 'Bad JSON, this will fail", 60, PyNone, "none"),
      Entry("", 60, PyNone, "none") }

TaskIdle(cfg, n) ==
    [pc |-> "idle", cfg |-> cfg, calls |-> n, url |-> "", cache_key |-> None,
     got |-> "none", scrapes |-> 0, scraped |-> Returned(NoResult), setexCalls |-> 0,
     setexArg |-> None, setexOk |-> FALSE, status |-> "running", result |-> PyNone,
     exc |-> "", origin |-> PyNone, via |-> "none"]

TaskReturn(t, job_data) == [t EXCEPT !.pc = "done", !.status = "returned", !.result = job_data]
TaskRaise(t, exc) == [t EXCEPT !.pc = "done", !.status = "raised", !.exc = exc]

\* lines 234-250: the task is called; without a scraper client it raises Ignore
TaskCall ==
    /\ task.pc \in {"idle", "done"} /\ task.calls < MaxTaskCalls
    /\ \E url \in TaskUrls :
          LET t == [TaskIdle(task.cfg, task.calls + 1) EXCEPT !.url = url]
          IN  task' = IF ~t.cfg.scraper_client THEN TaskRaise(t, "Ignore")
                      ELSE IF t.cfg.cache_enabled /\ t.cfg.redis_client
                      THEN [t EXCEPT !.pc = "get"]
                      ELSE [t EXCEPT !.pc = "scrape"]
    /\ UNCHANGED <<req, file, host, scroll, click, label, synth, repair, jobid, client,
                   cache, docx, popup>>

\* line 255: bool(cached_result_str)
IsCacheHit(entry) == entry.present /\ entry.val # ""

\* lines 251-278: the key, the GET and the decoding of what it returned
TaskGetStep(t, redisOk, entry) ==
    LET k == [t EXCEPT !.cache_key = Some(generate_cache_key("scraper_data", t.url))]
        job_data == JsonParse(entry.val)
    IN  IF ~redisOk THEN [k EXCEPT !.got = "error", !.pc = "scrape"]
        ELSE IF ~IsCacheHit(entry) THEN [k EXCEPT !.got = "miss", !.pc = "scrape"]
        ELSE IF job_data.some
        THEN TaskReturn([k EXCEPT !.got = "hit", !.origin = entry.origin,
                                  !.via = entry.via], job_data.val)
        ELSE [k EXCEPT !.got = "undecodable", !.pc = "scrape"]

TaskGet ==
    /\ task.pc = "get"
    /\ \E redisOk \in BOOLEAN :
          task' = TaskGetStep(task, redisOk,
                              cache[generate_cache_key("scraper_data", task.url)])
    /\ UNCHANGED <<req, file, host, scroll, click, label, synth, repair, jobid, client,
                   cache, docx, popup>>

\* line 282 and joblo_core.adaptive_scraper, lines 76-83: the client is called
TaskScrape ==
    /\ task.pc = "scrape"
    /\ task' = [task EXCEPT !.pc = "client", !.scrapes = @ + 1]
    /\ client' = ClientIdle(task.url)
    /\ UNCHANGED <<req, file, host, scroll, click, label, synth, repair, jobid,
                   cache, docx, popup>>

\* joblo_core.adaptive_scraper, lines 86-99: ValueError and ConnectionError pass,
\* any other exception becomes ConnectionError
core_adaptive_scraper(exc) ==
    IF exc \in {"ValueError", "ConnectionError"} THEN exc ELSE "ConnectionError"

\* ShouldStore leaving error records out
ShouldStoreNoErrors(t, job_data) ==
    /\ t.cfg.cache_enabled /\ t.cfg.redis_client /\ t.cache_key.some
    /\ job_data # PyNone
    /\ ~(\E i \in 1..Len(job_data.xs) : job_data.xs[i].xs[1] = PyStr("error"))

\* line 287: the conditions under which the result is stored
ShouldStore(t, job_data) ==
    /\ t.cfg.cache_enabled /\ t.cfg.redis_client /\ t.cache_key.some
    /\ job_data # PyNone

\* lines 282-287 and 305-319: the client has returned or raised
TaskScrapedStep(t, outcome) ==
    IF outcome.status = "raised"
    THEN TaskRaise([t EXCEPT !.scraped = Raised(outcome.exc)],
                   core_adaptive_scraper(outcome.exc))
    ELSE LET job_data == PyValue(outcome.result)
             s == [t EXCEPT !.scraped = Returned(outcome.result), !.result = job_data]
         IN  IF ShouldStore(t, job_data) THEN [s EXCEPT !.pc = "setex"]
             ELSE TaskReturn(s, job_data)

TaskScraped ==
    /\ task.pc = "client" /\ client.pc = "done"
    /\ task' = TaskScrapedStep(task, client)
    /\ client' = Unused
    /\ req' = [r \in Requests |-> Idle]
    /\ UNCHANGED <<file, host, scroll, click, label, synth, repair, jobid,
                   cache, docx, popup>>

\* lines 288-305: json.dumps and SETEX, both absorbed; then the result is returned
TaskSetexStep(t, job_data_str, redisOk) ==
    IF ~job_data_str.some THEN TaskReturn(t, t.result)
    ELSE TaskReturn([t EXCEPT !.setexCalls = @ + 1, !.setexArg = job_data_str,
                              !.setexOk = redisOk], t.result)

TaskSetex ==
    /\ task.pc = "setex"
    /\ \E redisOk \in BOOLEAN :
          LET job_data_str == JsonDumps(task.result)
          IN  /\ task' = TaskSetexStep(task, job_data_str, redisOk)
              /\ cache' = IF job_data_str.some /\ redisOk
                          THEN [cache EXCEPT ![task.cache_key.val] =
                                   Entry(job_data_str.val, SCRAPER_CACHE_TTL_SECONDS,
                                         task.result, task.got)]
                          ELSE cache
    /\ UNCHANGED <<req, file, host, scroll, click, label, synth, repair, jobid, client,
                   docx, popup>>

\* Redis drops an entry whose time to live has run out
Expire ==
    /\ \E key \in TaskKeys :
          /\ cache[key].present
          /\ cache' = [cache EXCEPT ![key] = NoEntry]
    /\ UNCHANGED <<req, file, host, scroll, click, label, synth, repair, jobid, client,
                   task, docx, popup>>

\* the scraper call of the task: the steps of ScraperClient.scrape_job_data
TaskClientStep == task.pc = "client" /\ NextClient

InitTask ==
    /\ req = [r \in Requests |-> Idle] /\ file = NoFile
    /\ host \in {Engines, {}}          \* every engine installed, or none
    /\ \E cfg \in TaskConfigs : task = TaskIdle(cfg, 0)
    /\ \E key \in TaskKeys : \E e \in ForeignEntries \cup {NoEntry} :
          cache = [k \in TaskKeys |-> IF k = key THEN e ELSE NoEntry]
    /\ client = Unused /\ jobid = Unused
    /\ scroll = Unused /\ click = Unused /\ label = Unused
    /\ synth = Unused /\ repair = Unused
    /\ docx = Unused /\ popup = Unused

NextTask ==
    \/ TaskCall \/ TaskGet \/ TaskScrape \/ TaskClientStep \/ TaskScraped
    \/ TaskSetex \/ Expire

SpecTask == InitTask /\ [][NextTask]_vars

\* C21: with caching enabled and Redis healthy, a call that finds the entry a cache
\* miss stored for its URL returns a record equal to the one the miss returned,
\* without invoking the scraper and without writing to the cache.
C21_HitReturnsMissRecord ==
    task.pc = "done" /\ task.got = "hit" /\ task.via = "miss" =>
        /\ task.status = "returned" /\ task.result = task.origin
        /\ task.scrapes = 0 /\ task.setexCalls = 0

\* a call of the task has ended after a Redis GET failure, an undecodable cached
\* value, or a Redis SETEX failure
C22_CacheFailed ==
    /\ task.pc = "done"
    /\ \/ task.got \in {"error", "undecodable"}
       \/ task.setexCalls = 1 /\ ~task.setexOk

\* C22: a Redis GET failure, a Redis SETEX failure or an undecodable cached value
\* never fails the task: the scraper is invoked exactly once and, when it returns a
\* result, that result is returned; and after a GET failure or an undecodable value
\* the fresh result is written to the cache (SETEX is called with its JSON text).
C22_CacheFailuresAbsorbed ==
    C22_CacheFailed =>
        /\ task.scrapes = 1
        /\ task.scraped.status = "returned" =>
              /\ task.status = "returned"
              /\ task.result = PyValue(task.scraped.result)
              /\ task.got \in {"error", "undecodable"} =>
                    /\ task.setexCalls = 1
                    /\ task.setexArg.some /\ task.setexArg = JsonDumps(task.result)

\* an {"error": reason} record
C29_IsErrorRecord(v) ==
    v.t = "dict" /\ Len(v.xs) = 1 /\ v.xs[1].xs[1] = PyStr("error")

\* the entry under the key of the URL the task is called with
C29_Entry == cache[generate_cache_key("scraper_data", task.url)]

\* C29: with caching on and Redis answering, an error record the pipeline returns
\* is the task's result and is passed to SETEX as its JSON text under the URL's
\* key; and while that entry is in the cache, a call for the URL whose GET
\* succeeds returns the stored error record without invoking the scraper.
C29_ErrorRecordMemoized ==
    /\ [](task.pc = "done" /\ task.scraped.status = "returned"
            /\ task.scraped.result.tag = "error" =>
              /\ task.status = "returned"
              /\ task.result =
                    PyDict(<<PyItem(PyStr("error"), PyStr(task.scraped.result.val))>>)
              /\ task.cfg.cache_enabled /\ task.cfg.redis_client =>
                    /\ task.setexCalls = 1
                    /\ task.setexArg = JsonDumps(task.result))
    /\ [][task.pc = "get" /\ C29_Entry.present /\ C29_IsErrorRecord(C29_Entry.origin)
            /\ task'.pc # "get" /\ task'.got # "error" =>
              /\ task'.pc = "done" /\ task'.got = "hit"
              /\ task'.status = "returned" /\ task'.result = C29_Entry.origin
              /\ task'.scrapes = 0 /\ task'.setexCalls = 0]_vars

\* C29 witness: the second call for a URL found the error record the first call
\* had stored and returned it without a scrape
C29_ErrorServedFromCache ==
    /\ task.pc = "done" /\ task.calls = 2 /\ task.got = "hit"
    /\ C29_IsErrorRecord(task.origin) /\ task.result = task.origin
    /\ task.scrapes = 0 /\ task.status = "returned"

(***************************************************************************)
(* Document conversion: ProcessingService.initiate_docx_conversion and the *)
(* task async_convert_md_to_docx, over the files of the upload folder      *)
(***************************************************************************)

\* the Markdown file a caller names in the upload folder, one in a folder next to
\* it whose name begins with the upload folder's name, one elsewhere, the temporary
\* file the service writes, and the converted document; the paths are distinct
InputMd == "/app/uploads/input.md"
SiblingMd == "/app/uploads_other/input.md"
OutsideMd == "/tmp/input.md"
TempMd == "/app/uploads/service_temp_md_for_conversion.md"
OutputDocx == "/app/uploads/out.docx"
DocxPaths == {InputMd, SiblingMd, OutsideMd, TempMd, OutputDocx}

\* what a path holds
Absent == "absent"
Markdown == "markdown"
Document == "docx"
Truncated == "truncated"

\* the values of inputMarkdownFilePath: not given, a file of the upload folder, a
\* file outside it, a path of the upload folder that does not exist, a file of the
\* folder next to the upload folder
InputParams == {"none", "inside", "outside", "missing", "sibling"}

\* the file a value of inputMarkdownFilePath names
ParamFile(param) ==
    CASE param = "sibling" -> SiblingMd
      [] param = "outside" -> OutsideMd
      [] OTHER -> InputMd

\* os.path.abspath of the upload folder and of a value of inputMarkdownFilePath, as
\* the pieces of the string
abs_upload_folder == <<"/app/uploads">>
abs_input_path(param) ==
    CASE param = "sibling" -> <<"/app/uploads", "_other/input.md">>
      [] param = "outside" -> <<"/tmp", "/input.md">>
      [] OTHER -> <<"/app/uploads", "/input.md">>

\* str.startswith
StartsWith(path, prefix) ==
    Len(path) >= Len(prefix) /\ SubSeq(path, 1, Len(prefix)) = prefix

\* the state before a call of the service (mode "service") or of the task alone
\* (mode "task")
DocxIdle(mode, files) ==
    [pc |-> IF mode = "service" THEN "service" ELSE "queued",
     api_key |-> FALSE, markdown_content |-> FALSE, input_md_path_param |-> "none",
     cc_client |-> FALSE,
     temp_md_file_created_by_service |-> FALSE,
     delete_temp_md_on_success |-> FALSE, md_path_for_task |-> "",
     status_code |-> 0, dispatched |-> FALSE, delayRaised |-> FALSE, cleanups |-> 0,
     input_md_path |-> "", delete_input_on_success |-> FALSE, input0 |-> Absent,
     converted |-> FALSE, vanished |-> FALSE, existsCalls |-> 0, removeCalls |-> 0, removeFailed |-> FALSE,
     status |-> "none", exc |-> "", result |-> "", fs |-> files]

\* os.remove(path): the file is gone unless the call raises
OsRemove(files, path, ok) == IF ok THEN [files EXCEPT ![path] = Absent] ELSE files

\* what os.remove of the finally clause ends with: the file removed, an exception
\* with the file left, or FileNotFoundError because another process removed the
\* file after the test of os.path.exists
CleanupOutcomes == {"removed", "raises", "vanished"}

\* lines 282-291, the finally clause of the service: the fallback removal of the
\* temporary file; an exception of os.remove is logged
FinallyCleanup(d, cleanup) ==
    IF /\ d.temp_md_file_created_by_service /\ ~d.delete_temp_md_on_success
       /\ d.fs[TempMd] # Absent
    THEN [d EXCEPT !.fs = OsRemove(d.fs, TempMd, cleanup # "raises"),
                   !.cleanups = @ + 1]
    ELSE d

\* the service returns a result with this status code, through its finally clause
ServiceRespond(d, code, cleanup) ==
    FinallyCleanup([d EXCEPT !.status_code = code,
                             !.pc = IF d.dispatched THEN "queued" ELSE "done"],
                   cleanup)

\* lines 221-258: validation of the inputs and preparation of the Markdown file;
\* the path guard of line 237 is a test on the strings, so a path of a folder whose
\* name begins with the upload folder's passes it; save is the outcome of writing
\* the temporary file
ServicePrepareStep(d, save, cleanup) ==
    IF ~d.api_key THEN ServiceRespond(d, 503, cleanup)
    ELSE IF ~d.markdown_content /\ d.input_md_path_param = "none"
    THEN ServiceRespond(d, 400, cleanup)
    ELSE IF d.input_md_path_param # "none"
    THEN IF ~StartsWith(abs_input_path(d.input_md_path_param), abs_upload_folder)
         THEN ServiceRespond(d, 400, cleanup)
         ELSE IF d.fs[ParamFile(d.input_md_path_param)] = Absent
         THEN ServiceRespond(d, 400, cleanup)
         ELSE [d EXCEPT !.md_path_for_task = ParamFile(d.input_md_path_param),
                        !.pc = "dispatch"]
    ELSE LET named == [d EXCEPT !.temp_md_file_created_by_service = TRUE] IN
         CASE save = "ok" ->
                 [named EXCEPT !.fs[TempMd] = Markdown, !.md_path_for_task = TempMd,
                               !.delete_temp_md_on_success = TRUE, !.pc = "dispatch"]
           [] save = "open fails" -> ServiceRespond(named, 500, cleanup)
           [] OTHER ->
                 ServiceRespond([named EXCEPT !.fs[TempMd] = Truncated], 500, cleanup)

ServicePrepare ==
    /\ docx.pc = "service"
    /\ \E save \in {"ok", "open fails", "write fails"} : \E cleanup \in CleanupOutcomes :
          docx' = ServicePrepareStep(docx, save, cleanup)
    /\ UNCHANGED <<req, file, host, scroll, click, label, synth, repair, jobid,
                   client, task, cache, popup>>

\* lines 260-281: the task is dispatched and the result built; delay() or url_for()
\* may raise, and the except clause answers 500
ServiceDispatchStep(d, outcome, cleanup) ==
    LET sent == [d EXCEPT !.dispatched = TRUE, !.input_md_path = d.md_path_for_task,
                          !.delete_input_on_success = d.delete_temp_md_on_success,
                          !.input0 = d.fs[d.md_path_for_task]] IN
    CASE outcome = "ok" -> ServiceRespond(sent, 202, cleanup)
      [] outcome = "delay raises" ->
            ServiceRespond([d EXCEPT !.delayRaised = TRUE], 500, cleanup)
      [] OTHER -> ServiceRespond(sent, 500, cleanup)

ServiceDispatch ==
    /\ docx.pc = "dispatch"
    /\ \E outcome \in {"ok", "delay raises", "url_for raises"} :
       \E cleanup \in CleanupOutcomes :
          docx' = ServiceDispatchStep(docx, outcome, cleanup)
    /\ UNCHANGED <<req, file, host, scroll, click, label, synth, repair, jobid,
                   client, task, cache, popup>>

DocxReturn(d) == [d EXCEPT !.pc = "done", !.status = "returned", !.result = OutputDocx]
DocxRaise(d, exc) == [d EXCEPT !.pc = "done", !.status = "raised", !.exc = exc]

\* tasks.py lines 176-179: without a CloudConvert client the task raises Ignore
ConvertCall ==
    /\ docx.pc = "queued"
    /\ docx' = IF docx.cc_client THEN [docx EXCEPT !.pc = "cc_exists"]
               ELSE DocxRaise(docx, "Ignore")
    /\ UNCHANGED <<req, file, host, scroll, click, label, synth, repair, jobid,
                   client, task, cache, popup>>

\* joblo_core.convert_md_to_docx: the client's FileNotFoundError, ConnectionError
\* and RuntimeError pass, any other exception becomes a RuntimeError
core_convert_md_to_docx(exc) ==
    IF exc \in {"FileNotFoundError", "ConnectionError", "RuntimeError"} THEN exc
    ELSE "RuntimeError"

ShouldDeleteInputAlways(d) == TRUE

\* tasks.py line 190
ShouldDeleteInput(d) == d.delete_input_on_success

\* cloudconvert_client.py lines 93-100: what the client raises for an exception
\* caught in its try block
ClientException(caught) ==
    IF caught = "RequestException" THEN "ConnectionError" ELSE "RuntimeError"

\* tasks.py lines 206-228: an exception of the conversion is raised by the task
ConvertRaisedStep(d, exc) == DocxRaise(d, core_convert_md_to_docx(exc))

\* tasks.py lines 186-206: the conversion returned; the deletion or the return
ConvertReturnedStep(d) ==
    LET done == [d EXCEPT !.converted = TRUE] IN
    IF ShouldDeleteInput(done) THEN [done EXCEPT !.pc = "delete"]
    ELSE DocxReturn(done)

\* cloudconvert_client.py lines 30-32: os.path.exists(input_md_path), outside the
\* try block
CloudConvertExistsStep(d) ==
    IF d.fs[d.input_md_path] = Absent THEN ConvertRaisedStep(d, "FileNotFoundError")
    ELSE [d EXCEPT !.pc = "cc_create"]

CloudConvertExists ==
    /\ docx.pc = "cc_exists"
    /\ docx' = CloudConvertExistsStep(docx)
    /\ UNCHANGED <<req, file, host, scroll, click, label, synth, repair, jobid,
                   client, task, cache, popup>>

\* lines 53-63: Job.create and the import task of its answer
CloudConvertCreateStep(d, outcome) ==
    IF outcome = "ok" THEN [d EXCEPT !.pc = "cc_upload"]
    ELSE ConvertRaisedStep(d, ClientException(outcome))

CloudConvertCreate ==
    /\ docx.pc = "cc_create"
    /\ \E outcome \in {"ok", "RequestException", "no import task"} :
          docx' = CloudConvertCreateStep(docx, outcome)
    /\ UNCHANGED <<req, file, host, scroll, click, label, synth, repair, jobid,
                   client, task, cache, popup>>

\* lines 66-69: open(input_md_path, 'rb') raises FileNotFoundError when the input
\* is gone by now; then requests.post and raise_for_status
CloudConvertUploadStep(d, outcome) ==
    IF d.fs[d.input_md_path] = Absent
    THEN ConvertRaisedStep(d, ClientException("FileNotFoundError"))
    ELSE IF outcome = "ok" THEN [d EXCEPT !.pc = "cc_wait"]
    ELSE ConvertRaisedStep(d, ClientException(outcome))

CloudConvertUpload ==
    /\ docx.pc = "cc_upload"
    /\ \E outcome \in {"ok", "RequestException"} :
          docx' = CloudConvertUploadStep(docx, outcome)
    /\ UNCHANGED <<req, file, host, scroll, click, label, synth, repair, jobid,
                   client, task, cache, popup>>

\* lines 73-86: Job.wait, the status of the job and its export task
CloudConvertWaitStep(d, outcome) ==
    IF outcome = "ok" THEN [d EXCEPT !.pc = "cc_download"]
    ELSE ConvertRaisedStep(d, ClientException(outcome))

CloudConvertWait ==
    /\ docx.pc = "cc_wait"
    /\ \E outcome \in {"ok", "RequestException", "job failed", "no export task"} :
          docx' = CloudConvertWaitStep(docx, outcome)
    /\ UNCHANGED <<req, file, host, scroll, click, label, synth, repair, jobid,
                   client, task, cache, popup>>

\* lines 88-89: requests.get and raise_for_status
CloudConvertDownloadStep(d, outcome) ==
    IF outcome = "ok" THEN [d EXCEPT !.pc = "cc_write"]
    ELSE ConvertRaisedStep(d, ClientException(outcome))

CloudConvertDownload ==
    /\ docx.pc = "cc_download"
    /\ \E outcome \in {"ok", "RequestException"} :
          docx' = CloudConvertDownloadStep(docx, outcome)
    /\ UNCHANGED <<req, file, host, scroll, click, label, synth, repair, jobid,
                   client, task, cache, popup>>

\* lines 90-91: open(output_docx_path, 'wb') truncates the output before the write;
\* the client returns after the write
CloudConvertWriteStep(d, outcome) ==
    CASE outcome = "ok" -> ConvertReturnedStep([d EXCEPT !.fs[OutputDocx] = Document])
      [] outcome = "open fails" -> ConvertRaisedStep(d, ClientException("OSError"))
      [] OTHER -> ConvertRaisedStep([d EXCEPT !.fs[OutputDocx] = Truncated],
                                    ClientException("OSError"))

CloudConvertWrite ==
    /\ docx.pc = "cc_write"
    /\ \E outcome \in {"ok", "open fails", "write fails"} :
          docx' = CloudConvertWriteStep(docx, outcome)
    /\ UNCHANGED <<req, file, host, scroll, click, label, synth, repair, jobid,
                   client, task, cache, popup>>

\* tasks.py lines 191-199: os.path.exists(input_md_path); a missing input is
\* logged and the output path is returned
ConvertExistsStep(d) ==
    LET looked == [d EXCEPT !.existsCalls = @ + 1] IN
    IF looked.fs[d.input_md_path] = Absent THEN DocxReturn(looked)
    ELSE [looked EXCEPT !.pc = "remove"]

ConvertExists ==
    /\ docx.pc = "delete"
    /\ docx' = ConvertExistsStep(docx)
    /\ UNCHANGED <<req, file, host, scroll, click, label, synth, repair, jobid,
                   client, task, cache, popup>>

\* tasks.py lines 194 and 200-206: os.remove(input_md_path); it raises
\* FileNotFoundError when the file is gone by now, and may raise otherwise; the
\* exception is logged, and the output path is returned
ConvertRemoveStep(d, removeOk) ==
    LET ok == removeOk /\ d.fs[d.input_md_path] # Absent IN
    DocxReturn([d EXCEPT !.removeCalls = @ + 1, !.removeFailed = ~ok,
                         !.fs = OsRemove(d.fs, d.input_md_path, ok)])

ConvertRemove ==
    /\ docx.pc = "remove"
    /\ \E removeOk \in BOOLEAN : docx' = ConvertRemoveStep(docx, removeOk)
    /\ UNCHANGED <<req, file, host, scroll, click, label, synth, repair, jobid,
                   client, task, cache, popup>>

\* the positions of a task that has been dispatched and has not ended
ConvertRunning ==
    {"queued", "cc_exists", "cc_create", "cc_upload", "cc_wait", "cc_download",
     "cc_write", "delete", "remove"}

\* another process removes the input, between any two steps of the task: before
\* the client looks for it, before it is opened for the upload, while the job
\* runs, before the test of tasks.py line 193, or between the test and os.remove
InputVanishes ==
    /\ docx.pc \in ConvertRunning
    /\ docx.input_md_path # ""
    /\ docx.fs[docx.input_md_path] # Absent
    /\ docx' = [docx EXCEPT !.fs[docx.input_md_path] = Absent, !.vanished = TRUE]
    /\ UNCHANGED <<req, file, host, scroll, click, label, synth, repair, jobid,
                   client, task, cache, popup>>

InitDocx ==
    /\ req = [r \in Requests |-> Idle] /\ file = NoFile /\ host = Engines
    /\ scroll = Unused /\ click = Unused /\ label = Unused
    /\ synth = Unused /\ repair = Unused /\ jobid = Unused /\ client = Unused
    /\ task = Unused /\ cache = Unused /\ popup = Unused
    /\ \E cc \in BOOLEAN : \E old \in {Absent, Document} :
       \/ \E key, md \in BOOLEAN : \E param \in InputParams :
            docx = [DocxIdle("service",
                             [p \in DocxPaths |->
                                 IF p = ParamFile(param)
                                    /\ param \in {"inside", "outside", "sibling"}
                                 THEN Markdown
                                 ELSE IF p = OutputDocx THEN old ELSE Absent])
                    EXCEPT !.api_key = key, !.markdown_content = md,
                           !.input_md_path_param = param, !.cc_client = cc]
       \/ \E flag \in BOOLEAN : \E content \in {Markdown, Absent} :
            docx = [DocxIdle("task", [p \in DocxPaths |->
                                         IF p = InputMd THEN content
                                         ELSE IF p = OutputDocx THEN old ELSE Absent])
                    EXCEPT !.cc_client = cc, !.input_md_path = InputMd,
                           !.delete_input_on_success = flag, !.input0 = content]

NextDocx ==
    \/ ServicePrepare \/ ServiceDispatch
    \/ ConvertCall
    \/ CloudConvertExists \/ CloudConvertCreate \/ CloudConvertUpload
    \/ CloudConvertWait \/ CloudConvertDownload \/ CloudConvertWrite
    \/ ConvertExists \/ ConvertRemove \/ InputVanishes

SpecDocx == InitDocx /\ [][NextDocx]_vars

\* C23: async_convert_md_to_docx removes the input Markdown file only after a
\* successful conversion and only when delete_input_on_success is true; when the
\* flag is false or the conversion raises, the task neither looks for the input nor
\* removes it and the file is as it was (unless another process removed it); and
\* once the conversion has succeeded the task returns the output path, whether or
\* not the removal raised.
C23_DeletesOnlyOnSuccessWithFlag ==
    /\ docx.removeCalls >= 1 =>
          docx.converted /\ docx.delete_input_on_success /\ docx.removeCalls = 1
    /\ docx.pc = "done" /\ docx.status # "none"
         /\ (~docx.delete_input_on_success \/ docx.status = "raised") =>
          /\ docx.existsCalls = 0 /\ docx.removeCalls = 0
          /\ docx.fs[docx.input_md_path] =
                IF docx.vanished THEN Absent ELSE docx.input0
    /\ docx.pc = "done" /\ docx.converted =>
          docx.status = "returned" /\ docx.result = OutputDocx

\* C23 witness: the conversion succeeded with the flag set, os.remove raised, the
\* file is still there and the task has returned the output path
C23_RemoveFailedStillReturned ==
    /\ docx.pc = "done" /\ docx.converted /\ docx.delete_input_on_success
    /\ docx.removeCalls = 1 /\ docx.removeFailed
    /\ docx.fs[docx.input_md_path] = Markdown
    /\ docx.status = "returned" /\ docx.result = OutputDocx

\* C28: when the service has written the temporary Markdown file and delay() then
\* raises, the temporary file is gone when the service returns its error result.
C28_TempRemovedOnFailedDispatch ==
    /\ docx.pc = "done" /\ docx.delayRaised
    /\ docx.temp_md_file_created_by_service
    => docx.status_code = 500 /\ docx.fs[TempMd] = Absent

(***************************************************************************)
(* close_popups: one call                                                  *)
(***************************************************************************)
MaxPopupAttempts == 3     \* max_attempts is drawn from 0..MaxPopupAttempts

\* lines 186-194
popup_selectors ==
    <<"button.close", "button[aria-label=\"Close\"]", ".modal-close", ".popup-close",
      ".close-button", ".dialog-close", "button[data-dismiss=\"modal\"]">>

\* what one selector does: no visible match, a visible match that is clicked, or
\* an exception of locator(), is_visible() or click()
SelectorOutcomes ==
    {"not visible", "clicked", "locator raises", "is_visible raises", "click raises"}

\* the locals of a call, and what it has done so far: passes begun, selectors
\* tried, popups closed, exceptions caught, passes ended with nothing closed
PopupIdle(max_attempts) ==
    [pc |-> "while", max_attempts |-> max_attempts, attempt |-> 0,
     popup_found |-> FALSE, selector |-> 0, status |-> "running",
     passes |-> 0, tried |-> 0, closed |-> 0, caught |-> 0, emptyPasses |-> 0]

\* lines 196-198: the loop test and the start of a pass
PopupWhileStep(p) ==
    IF p.attempt < p.max_attempts
    THEN [p EXCEPT !.pc = "for", !.popup_found = FALSE, !.selector = 1,
                   !.passes = @ + 1]
    ELSE [p EXCEPT !.pc = "done", !.status = "returned"]

\* the loop body with the exception of a selector let through
PopupSelectorStepUncaught(p, outcome) ==
    LET next == [p EXCEPT !.tried = @ + 1,
                          !.selector = @ + 1,
                          !.pc = IF p.selector = Len(popup_selectors)
                                 THEN "end" ELSE "for"] IN
    CASE outcome = "clicked" ->
            [next EXCEPT !.popup_found = TRUE, !.closed = @ + 1]
      [] outcome = "not visible" -> next
      [] OTHER -> [p EXCEPT !.tried = @ + 1, !.pc = "done", !.status = "raised"]

\* lines 199-211: one selector of the pass; an exception is printed and the pass
\* goes on with the next selector
PopupSelectorStep(p, outcome) ==
    LET next == [p EXCEPT !.tried = @ + 1,
                          !.selector = @ + 1,
                          !.pc = IF p.selector = Len(popup_selectors)
                                 THEN "end" ELSE "for"] IN
    CASE outcome = "clicked" ->
            [next EXCEPT !.popup_found = TRUE, !.closed = @ + 1]
      [] outcome = "not visible" -> next
      [] OTHER -> [next EXCEPT !.caught = @ + 1]

\* lines 212-216: the end of a pass
PopupPassEndStep(p) ==
    IF ~p.popup_found
    THEN [p EXCEPT !.pc = "done", !.status = "returned", !.emptyPasses = @ + 1]
    ELSE [p EXCEPT !.pc = "while", !.attempt = @ + 1]

PopupWhile ==
    /\ popup.pc = "while"
    /\ popup' = PopupWhileStep(popup)
    /\ UNCHANGED <<req, file, host, scroll, click, label, synth, repair, jobid,
                   client, task, cache, docx>>

PopupSelector ==
    /\ popup.pc = "for"
    /\ \E outcome \in SelectorOutcomes : popup' = PopupSelectorStep(popup, outcome)
    /\ UNCHANGED <<req, file, host, scroll, click, label, synth, repair, jobid,
                   client, task, cache, docx>>

PopupPassEnd ==
    /\ popup.pc = "end"
    /\ popup' = PopupPassEndStep(popup)
    /\ UNCHANGED <<req, file, host, scroll, click, label, synth, repair, jobid,
                   client, task, cache, docx>>

InitPopup ==
    /\ req = [r \in Requests |-> Idle] /\ file = NoFile /\ host = Engines
    /\ scroll = Unused /\ click = Unused /\ label = Unused
    /\ synth = Unused /\ repair = Unused /\ jobid = Unused /\ client = Unused
    /\ task = Unused /\ cache = Unused /\ docx = Unused
    /\ \E max_attempts \in 0..MaxPopupAttempts : popup = PopupIdle(max_attempts)

NextPopup == PopupWhile \/ PopupSelector \/ PopupPassEnd

SpecPopup == InitPopup /\ [][NextPopup]_vars

\* C25: whatever the selectors do, exceptions included, close_popups never raises;
\* every pass that ends has tried every selector of the list; at most max_attempts
\* passes are begun; and the call ends with the first pass that closed nothing.
C25_PopupsBounded ==
    /\ popup.status # "raised"
    /\ popup.passes <= popup.max_attempts
    /\ popup.pc \in {"while", "end", "done"} =>
          popup.tried = popup.passes * Len(popup_selectors)
    /\ popup.emptyPasses >= 1 => popup.pc = "done" /\ popup.emptyPasses = 1
    /\ popup.pc = "done" =>
          /\ popup.status = "returned"
          /\ popup.emptyPasses = 1 \/ popup.passes = popup.max_attempts

\* C25 witness: a first pass closed a popup and caught an exception, a second pass
\* tried all seven selectors, closed nothing, and ended the call
C25_StoppedAfterEmptyPass ==
    /\ popup.pc = "done" /\ popup.status = "returned" /\ popup.max_attempts = 3
    /\ popup.passes = 2 /\ popup.emptyPasses = 1
    /\ popup.closed >= 1 /\ popup.caught >= 1 /\ popup.tried = 14

(***************************************************************************)
(* fix_invalid_key_escapes: the loop of one call, pass by pass             *)
(***************************************************************************)
MaxKeyChars == 6          \* inputs are the strings of at most MaxKeyChars characters

\* a backslash, a quote, a key character and a colon
KeyChars == {"\\", "\"", "a", ":"}

RECURSIVE KeyStrings(_)
KeyStrings(n) ==
    IF n = 0 THEN {""}
    ELSE {t \o k : t \in KeyStrings(n - 1), k \in KeyChars}

KeyFixInputs == UNION {KeyStrings(n) : n \in 0..MaxKeyChars}

KeyFixIdle(input) ==
    [pc |-> "loop", input |-> input, json_str |-> input, passes |-> 0]

\* the loop leaving after its first pass
KeyFixPassStepOnce(r) ==
    LET new_str == fix_escaped_quotes_in_keys(r.json_str) IN
    [r EXCEPT !.pc = "done", !.json_str = new_str, !.passes = @ + 1]

\* lines 138-143: one pass of the loop
KeyFixPassStep(r) ==
    LET new_str == fix_escaped_quotes_in_keys(r.json_str) IN
    IF new_str = r.json_str THEN [r EXCEPT !.pc = "done", !.passes = @ + 1]
    ELSE [r EXCEPT !.json_str = new_str, !.passes = @ + 1]

KeyFixPass ==
    /\ repair.pc = "loop"
    /\ repair' = KeyFixPassStep(repair)
    /\ UNCHANGED <<req, file, host, scroll, click, label, synth, jobid, client, outer>>

InitKeyFix ==
    /\ req = [r \in Requests |-> Idle] /\ file = NoFile /\ host = {}
    /\ jobid = Unused /\ client = Unused /\ OuterUnused
    /\ \E input \in KeyFixInputs : repair = KeyFixIdle(input)
    /\ scroll = Unused /\ click = Unused /\ label = Unused /\ synth = Unused

NextKeyFix == KeyFixPass

SpecKeyFix == InitKeyFix /\ [][NextKeyFix]_vars

\* the call runs on: a pass that can be taken is eventually taken
SpecKeyFixFair == SpecKeyFix /\ WF_vars(NextKeyFix)

\* C27: every call of fix_invalid_key_escapes ends, after at most one pass more
\* than the input has characters, and what it returns is left unchanged by
\* fix_escaped_quotes_in_keys.
C27_KeyFixTerminatesAtFixedPoint ==
    /\ <>(repair.pc = "done")
    /\ [](repair.passes <= Len(repair.input) + 1)
    /\ [](repair.pc = "done" =>
            /\ fix_escaped_quotes_in_keys(repair.json_str) = repair.json_str
            /\ repair.json_str = fix_invalid_key_escapes(repair.input))

\* C27 witness: two backslashes before the key took two changing passes and a
\* third that changed nothing
C27_ThreePasses ==
    /\ repair.pc = "done" /\ repair.input = "\\\\\"a\":"
    /\ repair.passes = 3 /\ repair.json_str = "\"a\":"

\* C30: on the fast path a request that fails inside fetch_job_detail does not end
\* the call and makes no error record by itself: the text "Error: " with the
\* message is taken as the page, extract_relevant_text yields a non-empty text
\* from it, and the structuring LLM is called once, with that text; the outcome of
\* the path is whatever process_text_with_llm makes of the LLM's answer.
C30_FailedFetchReachesLlm ==
    client.fetchFailed =>
        /\ client.raw_html = "Error: " \o client.fetchError
        /\ client.pc = "fast_structure" => client.inner = Returned(NoResult)
        /\ client.pc \in {"finish", "done"} =>
              /\ client.llmCalls = 1
              /\ client.llmText = extract_relevant_text(client.raw_html)
              /\ Strip(client.llmText) # "" /\ Contains(client.llmText, "Error:")
              /\ client.inner.status = "returned"
              /\ client.inner.result # Err("No text extracted from the job posting.")

\* C30 witness: the request timed out, the LLM was called with "Error: timeout" and
\* its answer was returned as the job's record
C30_ErrorTextStructured ==
    /\ client.pc = "done" /\ client.fetchFailed /\ client.llmText = "Error: timeout"
    /\ client.llmCalls = 1 /\ client.status = "returned" /\ client.result.tag = "record"

=============================================================================
